---- MODULE Spec2Model ----
(***************************************************************************)
(* A model of the Gastron lightcycle duel (src/src/gastron): the cycle     *)
(* entity (player.py), the tick engine and round/match state machine       *)
(* (game.py), the AI (ai.py) and the power-up spawner/effects              *)
(* (powerups.py).  Positions are pixel pairs <<x, y>>, as in the source.   *)
(***************************************************************************)
EXTENDS Integers, Sequences, FiniteSets, TLC

(***************************************************************************)
(* Bounds of the model.  The playfield of utils.py is 1200 x 760 pixels;   *)
(* the model keeps the formulas of the source and shrinks the extents to   *)
(* 8 x 6 cells, with the start cells on the grid as in the source.         *)
(***************************************************************************)
SCREEN_WIDTH == 80

SCREEN_HEIGHT == 60

\* caps on simulation_tick (which the source never resets) and on the number
\* of key events handled while PLAYING: in the duels, and in the runs that
\* start at the main menu
MaxTicks == 5

MaxKeys == 3

MenuTicks == 3

MenuKeys == 1

\* PowerUpManager.spawn_interval_ticks (170 in the source), scaled
SpawnInterval == 3

\* the timer durations of PowerUpManager.apply (80 and 70 in the source), scaled
SpeedTicks == 4

ShieldTicks == 3

\* the eraser's cap of PowerUpManager.apply (35 in the source), scaled
EraserCount == 3

(***************************************************************************)
(* Program constants.                                                      *)
(***************************************************************************)
GRID_SIZE == 10

DEFAULT_STEP_INTERVAL_MS == 60

\* max_powerups of PowerUpManager
MaxPowerups == 3

\* ammo granted by the weapon power-up
WeaponAmmo == 3

\* node budget per depth unit of TronAI._space_score
NodesPerDepth == 40

\* the sentinel of TronAI._space_score for a blocked start
BlockedScore == -9999

\* Python's None, for a string-valued, a player-valued and a heading-valued field
None == "None"

NoPlayer == 0

NoDirection == <<0, 0>>

UP == <<0, -1>>

DOWN == <<0, 1>>

LEFT == <<-1, 0>>

RIGHT == <<1, 0>>

DIRECTIONS == <<UP, DOWN, LEFT, RIGHT>>

DirSet == {UP, DOWN, LEFT, RIGHT}

GameModes == {"single_player", "multiplayer", "tournament"}

Difficulties == {"easy", "medium", "hard"}

PowerUpTypes == {"speed", "shield", "eraser", "weapon"}

GameStates == {"MAIN_MENU", "SETTINGS", "HIGH_SCORES", "PLAYING", "PAUSED",
               "ROUND_OVER", "GAME_OVER"}

\* the frame durations (milliseconds) the clock may report
DtSet == {60, 120}

\* the values of tournament_best_of a settings file may hold
BestOfSet == {-2, 3}

(***************************************************************************)
(* utils.py                                                                *)
(***************************************************************************)
is_opposite(a, b) == a[1] = -b[1] /\ a[2] = -b[2]

add_direction(position, direction, step) ==
    <<position[1] + direction[1] * step, position[2] + direction[2] * step>>

in_bounds(position) ==
    /\ 0 <= position[1] /\ position[1] < SCREEN_WIDTH
    /\ 0 <= position[2] /\ position[2] < SCREEN_HEIGHT

\* the cells random_open_cell samples from
SampleCells ==
    {<<cx * GRID_SIZE, cy * GRID_SIZE>> :
        cx \in 0 .. (SCREEN_WIDTH \div GRID_SIZE) - 1,
        cy \in 0 .. (SCREEN_HEIGHT \div GRID_SIZE) - 1}

CenterCell == <<SCREEN_WIDTH \div 2, SCREEN_HEIGHT \div 2>>

\* a mutant of random_open_cell: the first cell drawn is returned, free or not
random_open_cell_unchecked(occupied, draws) == SampleCells \cap draws

\* The outcomes of random_open_cell: a sampled cell that is free, or the
\* centre cell when every one of the attempts drew an occupied cell (which
\* needs an occupied cell among the sampled ones).  draws are the cells the
\* random source is let to draw.
random_open_cell(occupied, draws) ==
    ((SampleCells \cap draws) \ occupied)
        \cup (IF SampleCells \cap occupied # {} THEN {CenterCell} ELSE {})

Abs(n) == IF n < 0 THEN -n ELSE n

Min(a, b) == IF a <= b THEN a ELSE b

Max(a, b) == IF a >= b THEN a ELSE b

Range(s) == {s[i] : i \in 1 .. Len(s)}

(***************************************************************************)
(* player.py: LightCycle                                                   *)
(***************************************************************************)
\* _create_players: the start cell and heading of each cycle
start_pos(id) ==
    IF id = 1 THEN <<SCREEN_WIDTH \div 4, SCREEN_HEIGHT \div 2>>
    ELSE <<(SCREEN_WIDTH * 3) \div 4, SCREEN_HEIGHT \div 2>>

start_dir(id) == IF id = 1 THEN RIGHT ELSE LEFT

\* the default key bindings of GameSettings
controls(id) ==
    IF id = 1
    THEN [K_UP |-> UP, K_DOWN |-> DOWN, K_LEFT |-> LEFT, K_RIGHT |-> RIGHT]
    ELSE [K_w |-> UP, K_s |-> DOWN, K_a |-> LEFT, K_d |-> RIGHT]

shoot_key(id) == IF id = 1 THEN "K_RCTRL" ELSE "K_LSHIFT"

GameKeys == {"K_UP", "K_DOWN", "K_LEFT", "K_RIGHT", "K_RCTRL",
             "K_w", "K_s", "K_a", "K_d", "K_LSHIFT"}

PowerState == [speed_timer |-> 0, shield_timer |-> 0]

\* a mutant of reset_round_player: the power-up timers are left running
reset_round_player_keeps_timers(pl, id) ==
    [pl EXCEPT !.position = start_pos(id),
               !.direction = start_dir(id),
               !.pending_direction = NoDirection,
               !.trail = <<>>,
               !.trail_set = {},
               !.alive = TRUE,
               !.ammo = 0]

\* LightCycle.reset_round
reset_round_player(pl, id) ==
    [pl EXCEPT !.position = start_pos(id),
               !.direction = start_dir(id),
               !.pending_direction = NoDirection,
               !.trail = <<>>,
               !.trail_set = {},
               !.alive = TRUE,
               !.ammo = 0,
               !.power_state = PowerState]

\* LightCycle.__post_init__ (the dataclass defaults, then reset_round)
new_player(id) ==
    reset_round_player(
        [position |-> start_pos(id), direction |-> start_dir(id),
         pending_direction |-> NoDirection, trail |-> <<>>, trail_set |-> {},
         alive |-> TRUE, score |-> 0, ammo |-> 0, power_state |-> PowerState],
        id)

\* a mutant of apply_pending_turn: the queued turn is taken but stays queued
apply_pending_turn_keeps_pending(pl) ==
    IF pl.pending_direction = NoDirection THEN pl
    ELSE [pl EXCEPT
            !.direction = IF ~is_opposite(pl.pending_direction, pl.direction)
                          THEN pl.pending_direction ELSE pl.direction]

\* a mutant of queue_turn: the reverse request is queued like any other
queue_turn_no_reverse_check(pl, id, key) ==
    IF key \notin DOMAIN controls(id) THEN pl
    ELSE IF controls(id)[key] = pl.direction THEN pl
    ELSE [pl EXCEPT !.pending_direction = controls(id)[key]]

\* LightCycle.queue_turn
queue_turn(pl, id, key) ==
    IF key \notin DOMAIN controls(id) THEN pl
    ELSE LET candidate == controls(id)[key]
         IN  IF candidate = pl.direction \/ is_opposite(candidate, pl.direction)
             THEN pl
             ELSE [pl EXCEPT !.pending_direction = candidate]

\* LightCycle.apply_pending_turn
apply_pending_turn(pl) ==
    IF pl.pending_direction = NoDirection THEN pl
    ELSE [pl EXCEPT
            !.direction = IF ~is_opposite(pl.pending_direction, pl.direction)
                          THEN pl.pending_direction ELSE pl.direction,
            !.pending_direction = NoDirection]

\* LightCycle.next_position
next_position(pl) == add_direction(pl.position, pl.direction, GRID_SIZE)

\* LightCycle.consume_trail_segment: pop(0) and discard, remove_count times
RECURSIVE consume_loop(_, _)
consume_loop(pl, remove_count) ==
    IF remove_count = 0 THEN pl
    ELSE consume_loop(
            [pl EXCEPT !.trail = Tail(pl.trail),
                       !.trail_set = pl.trail_set \ {Head(pl.trail)}],
            remove_count - 1)

consume_trail_segment(pl, max_count) ==
    consume_loop(pl, Min(max_count, Len(pl.trail)))

\* a mutant of tick_effects: only the speed timer runs down
tick_effects_speed_only(pl) ==
    [pl EXCEPT !.power_state.speed_timer = Max(0, pl.power_state.speed_timer - 1)]

\* LightCycle.tick_effects
tick_effects(pl) ==
    [pl EXCEPT !.power_state =
        [speed_timer |-> Max(0, pl.power_state.speed_timer - 1),
         shield_timer |-> Max(0, pl.power_state.shield_timer - 1)]]

\* LightCycle.has_shield
has_shield(pl) == pl.power_state.shield_timer > 0

\* occupied_cells
occupied_cells(ps) ==
    UNION {{ps[i].position} \cup ps[i].trail_set : i \in DOMAIN ps}

(***************************************************************************)
(* ai.py: TronAI.  A snapshot is a record [ai_position, ai_direction,      *)
(* opponent_position, occupied].  The random source is a nondeterministic  *)
(* choice: choose_direction and should_shoot give the SET of outcomes.     *)
(***************************************************************************)
\* a mutant of safe_directions: the reverse heading is not skipped
safe_directions_with_reverse(snapshot, look_ahead) ==
    LET blocked(direction) ==
            \E k \in 1 .. look_ahead :
                LET position == add_direction(snapshot.ai_position, direction,
                                              k * GRID_SIZE)
                IN  position \in snapshot.occupied \/ ~in_bounds(position)
    IN  SelectSeq(DIRECTIONS, LAMBDA d : ~blocked(d))

\* TronAI._safe_directions: the non-reverse headings, in the order of
\* DIRECTIONS, whose look_ahead next cells are all free and in bounds
safe_directions(snapshot, look_ahead) ==
    LET blocked(direction) ==
            \E k \in 1 .. look_ahead :
                LET position == add_direction(snapshot.ai_position, direction,
                                              k * GRID_SIZE)
                IN  position \in snapshot.occupied \/ ~in_bounds(position)
    IN  SelectSeq(DIRECTIONS,
                  LAMBDA d : ~is_opposite(d, snapshot.ai_direction) /\ ~blocked(d))

\* the while loop of TronAI._space_score
RECURSIVE space_loop(_, _, _, _, _, _)
space_loop(frontier, visited, score, steps, occupied, budget) ==
    IF frontier = <<>> \/ steps >= budget THEN score
    ELSE LET current == Head(frontier)
             neighbours == [i \in 1 .. 4 |->
                               add_direction(current, DIRECTIONS[i], GRID_SIZE)]
             fresh == SelectSeq(neighbours,
                         LAMBDA nxt : /\ nxt \notin visited
                                      /\ nxt \notin occupied
                                      /\ in_bounds(nxt))
         IN  space_loop(Tail(frontier) \o fresh, visited \cup Range(fresh),
                        score + 1, steps + 1, occupied, budget)

\* a mutant of _space_score: the node budget is one depth unit too large
space_score_wide_budget(snapshot, direction, depth) ==
    LET start == add_direction(snapshot.ai_position, direction, GRID_SIZE)
    IN  IF ~in_bounds(start) \/ start \in snapshot.occupied THEN BlockedScore
        ELSE space_loop(<<start>>, {start}, 0, 0, snapshot.occupied,
                        (depth + 1) * NodesPerDepth)

\* a mutant of _space_score: the start cell is not tested
space_score_unchecked(snapshot, direction, depth) ==
    LET start == add_direction(snapshot.ai_position, direction, GRID_SIZE)
    IN  space_loop(<<start>>, {start}, 0, 0, snapshot.occupied,
                   depth * NodesPerDepth)

\* TronAI._space_score
space_score(snapshot, direction, depth) ==
    LET start == add_direction(snapshot.ai_position, direction, GRID_SIZE)
    IN  IF ~in_bounds(start) \/ start \in snapshot.occupied THEN BlockedScore
        ELSE space_loop(<<start>>, {start}, 0, 0, snapshot.occupied,
                        depth * NodesPerDepth)

\* TronAI._manhattan
manhattan(a, b) == Abs(a[1] - b[1]) + Abs(a[2] - b[2])

\* sorted(options, key, reverse=True)[0], score being the key of each option:
\* Python's sort is stable, also with reverse=True, so the first option of
\* maximal score is returned
first_max(options, score) ==
    LET i == CHOOSE i \in 1 .. Len(options) :
                /\ \A j \in 1 .. Len(options) :
                      score[options[j]] <= score[options[i]]
                /\ \A j \in 1 .. i - 1 : score[options[j]] < score[options[i]]
    IN  options[i]

\* a mutant of _easy: the heading is kept whatever lies ahead
easy_keeps_heading(snapshot) == {snapshot.ai_direction}

\* TronAI._easy: random.random() and random.choice may return any safe heading
easy(snapshot) ==
    LET safe == safe_directions(snapshot, 1)
    IN  IF safe = <<>> THEN {snapshot.ai_direction} ELSE Range(safe)

\* a mutant of medium: with no option left it turns to a heading whose next
\* cell is free, as the easy tier does
medium_turns_when_stuck(snapshot) ==
    LET options == safe_directions(snapshot, 3)
        safe == safe_directions(snapshot, 1)
    IN  IF options = <<>>
        THEN (IF safe = <<>> THEN {snapshot.ai_direction} ELSE {safe[1]})
        ELSE {first_max(options,
                        [d \in Range(options) |-> space_score(snapshot, d, 4)])}

\* TronAI._medium
medium(snapshot) ==
    LET options == safe_directions(snapshot, 3)
    IN  IF options = <<>> THEN {snapshot.ai_direction}
        ELSE {first_max(options,
                        [d \in Range(options) |-> space_score(snapshot, d, 4)])}

\* The rounding of `manhattan * 0.35` in _hard.  The product is a binary
\* floating-point number: 0.35 is held as 0.34999999999999997779..., and the
\* product is rounded to 53 bits.  For the distances of up to 200 pixels it
\* is the exact value 0.35 * distance but for three of them: 90 * 0.35 is
\* 31.499999999999996 (2^-48 below 31.5), 170 * 0.35 and 180 * 0.35 are
\* 2^-47 below 59.5 and 63.  aggression_error is how far the negated product
\* lies above the exact value, in units of 2^-48.
aggression_error(distance) ==
    IF distance = 90 THEN 1 ELSE IF distance \in {170, 180} THEN 2 ELSE 0

\* TronAI._hard: the key space + aggression of an option.  The sum of a
\* space of fewer than 64 cells and the aggression is exact, so the key is
\* space - 0.35 * distance plus the error of the product.  It is held here
\* as an integer that orders as the floating-point keys do: the exact value
\* in 1/400ths (distinct exact values lie at least 0.5 apart), plus the error,
\* which is smaller than any such gap.
hard_score(snapshot, option) ==
    LET space == space_score(snapshot, option, 6)
        distance == manhattan(add_direction(snapshot.ai_position, option,
                                            GRID_SIZE),
                              snapshot.opponent_position)
    IN  4 * (100 * space - 35 * distance) + aggression_error(distance)

hard(snapshot) ==
    LET options == safe_directions(snapshot, 4)
    IN  IF options = <<>> THEN {snapshot.ai_direction}
        ELSE {first_max(options,
                        [d \in Range(options) |-> hard_score(snapshot, d)])}

\* TronAI.choose_direction
choose_direction(difficulty, snapshot) ==
    IF difficulty = "easy" THEN easy(snapshot)
    ELSE IF difficulty = "medium" THEN medium(snapshot)
    ELSE hard(snapshot)

\* a mutant of should_shoot: hard fires whenever it holds ammo
should_shoot_hard_unaligned(difficulty, snapshot, ammo) ==
    IF ammo <= 0 THEN {FALSE}
    ELSE LET aligned ==
                \/ snapshot.ai_position[1] = snapshot.opponent_position[1]
                \/ snapshot.ai_position[2] = snapshot.opponent_position[2]
         IN  IF difficulty = "hard" THEN {TRUE}
             ELSE IF difficulty = "medium"
                  THEN (IF aligned THEN {TRUE, FALSE} ELSE {FALSE})
             ELSE {FALSE}

\* TronAI.should_shoot
should_shoot(difficulty, snapshot, ammo) ==
    IF ammo <= 0 THEN {FALSE}
    ELSE LET aligned ==
                \/ snapshot.ai_position[1] = snapshot.opponent_position[1]
                \/ snapshot.ai_position[2] = snapshot.opponent_position[2]
         IN  IF difficulty = "hard" THEN {aligned}
             ELSE IF difficulty = "medium"
                  THEN (IF aligned THEN {TRUE, FALSE} ELSE {FALSE})
             ELSE {FALSE}

(***************************************************************************)
(* game.py: TronGame.  The state of the game object.                       *)
(***************************************************************************)
VARIABLES
    state,                \* GameState
    game_mode,            \* settings.game_mode
    ai_difficulty,        \* settings.ai_difficulty
    tournament_best_of,   \* settings.tournament_best_of
    players,              \* the two LightCycles, by player_id
    projectiles,          \* the projectile group, in insertion order
    powerups,             \* the power-up group, in insertion order
    ticks_since_spawn,    \* powerup_manager.ticks_since_spawn
    match,                \* MatchInfo
    winner,               \* the winning player_id of the last round, or None
    round_stats,          \* RoundStats.crash_type of the last round, or None
    tick_accumulator_ms,
    simulation_tick,
    replay_log,
    pc,                   \* "idle": between handlers; "loop": inside the while
                          \* loop of _update_playing; "quit": run() has returned
    step_ms,              \* the local step_ms of the running _update_playing
    keys_handled,         \* number of key events handled while PLAYING
    limits,               \* what a behaviour explores: [ticks, keys, draws, kinds,
                          \* pressed], and interval where the manager's differs
    trace                 \* the key event, tick or reset that ran last, with its
                          \* inputs and locals

vars == <<state, game_mode, ai_difficulty, tournament_best_of, players,
          projectiles, powerups, ticks_since_spawn, match, winner, round_stats,
          tick_accumulator_ms, simulation_tick, replay_log, pc, step_ms,
          keys_handled, limits, trace>>

(***************************************************************************)
(* powerups.py: PowerUpManager.  A power-up is a record [kind, position],  *)
(* the group is a sequence in insertion order.                             *)
(***************************************************************************)
\* PowerUpManager.spawn_interval_ticks: SpawnInterval, unless the run is one
\* of a manager that holds another interval
spawn_interval_ticks ==
    IF "interval" \in DOMAIN limits THEN limits.interval ELSE SpawnInterval

\* a mutant of maybe_spawn: the number of live power-ups is not looked at
maybe_spawn_ignores_cap(group, counter, occupied, kinds, draws) ==
    IF counter + 1 < SpawnInterval
    THEN {[powerups |-> group, ticks_since_spawn |-> counter + 1]}
    ELSE {[powerups |-> Append(group, [kind |-> kind, position |-> position]),
           ticks_since_spawn |-> 0] :
             kind \in PowerUpTypes \cap kinds,
             position \in random_open_cell(occupied, draws)}

\* PowerUpManager.maybe_spawn: the set of outcomes [powerups, ticks_since_spawn];
\* kinds and draws are what random.choice and random_open_cell are let to draw
maybe_spawn(group, counter, occupied, kinds, draws) ==
    IF counter + 1 < spawn_interval_ticks
    THEN {[powerups |-> group, ticks_since_spawn |-> counter + 1]}
    ELSE IF Len(group) >= MaxPowerups
    THEN {[powerups |-> group, ticks_since_spawn |-> 0]}
    ELSE {[powerups |-> Append(group, [kind |-> kind, position |-> position]),
           ticks_since_spawn |-> 0] :
             kind \in PowerUpTypes \cap kinds,
             position \in random_open_cell(occupied, draws)}

\* a mutant of apply: the weapon power-up is credited twice
apply_weapon_twice(pl, kind) ==
    IF kind = "speed"
    THEN [pl EXCEPT !.power_state.speed_timer = SpeedTicks]
    ELSE IF kind = "shield"
    THEN [pl EXCEPT !.power_state.shield_timer = ShieldTicks]
    ELSE IF kind = "eraser"
    THEN consume_trail_segment(pl, EraserCount)
    ELSE [pl EXCEPT !.ammo = pl.ammo + WeaponAmmo + WeaponAmmo]

\* PowerUpManager.apply
apply(pl, kind) ==
    IF kind = "speed"
    THEN [pl EXCEPT !.power_state.speed_timer = SpeedTicks]
    ELSE IF kind = "shield"
    THEN [pl EXCEPT !.power_state.shield_timer = ShieldTicks]
    ELSE IF kind = "eraser"
    THEN consume_trail_segment(pl, EraserCount)
    ELSE [pl EXCEPT !.ammo = pl.ammo + WeaponAmmo]

\* MatchInfo()
MatchInfo == [rounds_played |-> 0, p1_round_wins |-> 0, p2_round_wins |-> 0]

\* GameSettings.rounds_to_win
rounds_to_win(best_of) == Max(1, (best_of \div 2) + 1)

\* a mutant of projectile_step: the projectile advances one cell
projectile_step_one_cell(pr) ==
    [pr EXCEPT !.position = add_direction(pr.position, pr.direction, GRID_SIZE)]

\* Projectile.step
projectile_step(pr) ==
    [pr EXCEPT !.position = add_direction(pr.position, pr.direction, GRID_SIZE * 2)]

\* the victim's trail without the cell a projectile landed on
cut_trail(pl, cell) ==
    [pl EXCEPT !.trail_set = pl.trail_set \ {cell},
               !.trail = SelectSeq(pl.trail, LAMBDA pos : pos # cell)]

\* a mutant of projectile_loop: a projectile that left the field flies on
RECURSIVE projectile_loop_keeps_strays(_, _, _)
projectile_loop_keeps_strays(todo, ps, kept) ==
    IF todo = <<>> THEN [players |-> ps, projectiles |-> kept]
    ELSE LET pr == projectile_step(Head(todo))
             victim == IF pr.owner_id = 1 THEN 2 ELSE 1
         IN  IF pr.position \in ps[victim].trail_set
             THEN projectile_loop_keeps_strays(Tail(todo),
                     [ps EXCEPT ![victim] = cut_trail(ps[victim], pr.position)],
                     kept)
             ELSE projectile_loop_keeps_strays(Tail(todo), ps, Append(kept, pr))

\* _simulate_step, the loop over the projectiles: [players, projectiles]
RECURSIVE projectile_loop(_, _, _)
projectile_loop(todo, ps, kept) ==
    IF todo = <<>> THEN [players |-> ps, projectiles |-> kept]
    ELSE LET pr == projectile_step(Head(todo))
             victim == IF pr.owner_id = 1 THEN 2 ELSE 1
         IN  IF ~in_bounds(pr.position)
             THEN projectile_loop(Tail(todo), ps, kept)
             ELSE IF pr.position \in ps[victim].trail_set
             THEN projectile_loop(Tail(todo),
                     [ps EXCEPT ![victim] = cut_trail(ps[victim], pr.position)],
                     kept)
             ELSE projectile_loop(Tail(todo), ps, Append(kept, pr))

\* a mutant of simulate_collision: the head-on and swap test is missing
simulate_collision_no_head_on(ps, occupied) ==
    [id \in {1, 2} |->
        LET nxt == next_position(ps[id])
        IN  IF ~in_bounds(nxt) THEN TRUE
            ELSE nxt \in occupied /\ ~has_shield(ps[id])]

\* a mutant of simulate_collision: the shield is ignored
simulate_collision_no_shield(ps, occupied) ==
    LET next1 == next_position(ps[1])
        next2 == next_position(ps[2])
        head_on == next1 = next2
                   \/ (next1 = ps[2].position /\ next2 = ps[1].position)
    IN  [id \in {1, 2} |->
            LET nxt == next_position(ps[id])
            IN  \/ head_on
                \/ ~in_bounds(nxt)
                \/ nxt \in occupied]

\* a mutant of simulate_collision: leaving the field is not looked at
simulate_collision_no_bounds(ps, occupied) ==
    LET next1 == next_position(ps[1])
        next2 == next_position(ps[2])
        head_on == next1 = next2
                   \/ (next1 = ps[2].position /\ next2 = ps[1].position)
    IN  [id \in {1, 2} |->
            LET nxt == next_position(ps[id])
            IN  \/ head_on
                \/ nxt \in occupied /\ ~has_shield(ps[id])]

\* a mutant of the inline collision logic: the occupied set is not consulted
simulate_collision_ignores_occupied(ps, occupied) ==
    LET next1 == next_position(ps[1])
        next2 == next_position(ps[2])
        head_on == next1 = next2
                   \/ (next1 = ps[2].position /\ next2 = ps[1].position)
    IN  [id \in {1, 2} |-> head_on \/ ~in_bounds(next_position(ps[id]))]

\* _simulate_step, the collision logic written inline: the dict dead
simulate_collision(ps, occupied) ==
    LET next1 == next_position(ps[1])
        next2 == next_position(ps[2])
        head_on == next1 = next2
                   \/ (next1 = ps[2].position /\ next2 = ps[1].position)
    IN  [id \in {1, 2} |->
            LET nxt == next_position(ps[id])
            IN  \/ head_on
                \/ IF ~in_bounds(nxt) THEN TRUE
                   ELSE nxt \in occupied /\ ~has_shield(ps[id])]

\* a mutant of detect_round_collision: the head-on and swap test is missing
detect_round_collision_no_head_on(next_positions, occupied, shields, current_positions) ==
    [pid \in {1, 2} |->
        LET nxt == next_positions[pid]
        IN  IF ~in_bounds(nxt) THEN TRUE
            ELSE nxt \in occupied /\ ~shields[pid]]

\* a mutant of detect_round_collision: the shield also protects at the
\* boundary
detect_round_collision_shield_at_boundary(next_positions, occupied, shields, current_positions) ==
    LET n1 == next_positions[1]
        n2 == next_positions[2]
        head_on == n1 = n2
                   \/ (n1 = current_positions[2] /\ n2 = current_positions[1])
    IN  [pid \in {1, 2} |->
            LET nxt == next_positions[pid]
            IN  \/ head_on
                \/ (~in_bounds(nxt) \/ nxt \in occupied) /\ ~shields[pid]]

\* detect_round_collision, the pure helper the tests use
detect_round_collision(next_positions, occupied, shields, current_positions) ==
    LET n1 == next_positions[1]
        n2 == next_positions[2]
        head_on == n1 = n2
                   \/ (n1 = current_positions[2] /\ n2 = current_positions[1])
    IN  [pid \in {1, 2} |->
            LET nxt == next_positions[pid]
            IN  \/ head_on
                \/ IF ~in_bounds(nxt) THEN TRUE
                   ELSE nxt \in occupied /\ ~shields[pid]]

\* pygame.sprite.spritecollideany(player, powerups): the rectangles are
\* GRID_SIZE squares with their top left corner at the position
collides(position, pu) ==
    /\ Abs(position[1] - pu.position[1]) < GRID_SIZE
    /\ Abs(position[2] - pu.position[2]) < GRID_SIZE

\* index of the first power-up of the group the player collides with, or 0
first_hit(position, group) ==
    IF \E i \in 1 .. Len(group) : collides(position, group[i])
    THEN CHOOSE i \in 1 .. Len(group) :
            /\ collides(position, group[i])
            /\ \A j \in 1 .. i - 1 : ~collides(position, group[j])
    ELSE 0

remove_at(s, i) == [j \in 1 .. Len(s) - 1 |-> IF j < i THEN s[j] ELSE s[j + 1]]

\* a mutant of move_player: the new position is pushed on the trail
move_player_pushes_new(pl, nxt) ==
    [pl EXCEPT !.trail = Append(pl.trail, nxt),
               !.trail_set = pl.trail_set \cup {nxt},
               !.position = nxt]

\* _simulate_step, movement of a surviving player: push the previous
\* position, then take the next position
move_player(pl, nxt) ==
    [pl EXCEPT !.trail = Append(pl.trail, pl.position),
               !.trail_set = pl.trail_set \cup {pl.position},
               !.position = nxt]

\* a mutant of move_and_pickup: a dead player still collects the power-up
\* its next position holds
move_and_pickup_dead_collects(acc, id, dead, next_positions) ==
    LET mv == IF dead[id] THEN acc.players[id]
              ELSE move_player(acc.players[id], next_positions[id])
        hit == first_hit(next_positions[id], acc.powerups)
    IN  IF hit = 0
        THEN [acc EXCEPT !.players[id] = mv, !.moved[id] = mv]
        ELSE [players |-> [acc.players EXCEPT
                             ![id] = apply(mv, acc.powerups[hit].kind)],
              powerups |-> remove_at(acc.powerups, hit),
              picked |-> [acc.picked EXCEPT ![id] = acc.powerups[hit].kind],
              moved |-> [acc.moved EXCEPT ![id] = mv]]

\* _simulate_step, one iteration of the movement loop for player id; acc is
\* the record [players, powerups, picked, moved], where moved keeps each
\* player as the movement left it, before any pickup
move_and_pickup(acc, id, dead, next_positions) ==
    IF dead[id] THEN acc
    ELSE LET mv == move_player(acc.players[id], next_positions[id])
             hit == first_hit(mv.position, acc.powerups)
         IN  IF hit = 0
             THEN [acc EXCEPT !.players[id] = mv, !.moved[id] = mv]
             ELSE [players |-> [acc.players EXCEPT
                                  ![id] = apply(mv, acc.powerups[hit].kind)],
                   powerups |-> remove_at(acc.powerups, hit),
                   picked |-> [acc.picked EXCEPT ![id] = acc.powerups[hit].kind],
                   moved |-> [acc.moved EXCEPT ![id] = mv]]

\* TronGame._is_match_complete
is_match_complete(mode, best_of, mt) ==
    IF mode = "tournament"
    THEN LET target == rounds_to_win(best_of)
         IN  mt.p1_round_wins >= target \/ mt.p2_round_wins >= target
    ELSE mt.rounds_played >= 1

\* a mutant of finish_round: a double crash is scored for player 2
finish_round_draw_scores(ps, mt, mode, best_of, p1_dead, p2_dead) ==
    LET scored == IF p1_dead THEN 2 ELSE 1
        ps2 == [ps EXCEPT ![scored].score = @ + 1]
        mt2 == [rounds_played |-> mt.rounds_played + 1,
                p1_round_wins |-> mt.p1_round_wins + (IF scored = 1 THEN 1 ELSE 0),
                p2_round_wins |-> mt.p2_round_wins + (IF scored = 2 THEN 1 ELSE 0)]
    IN  [players |-> ps2, match |-> mt2, winner |-> scored,
         crash |-> IF p1_dead THEN "Player 1 collided" ELSE "Player 2 collided",
         state |-> IF is_match_complete(mode, best_of, mt2)
                   THEN "GAME_OVER" ELSE "ROUND_OVER"]

\* TronGame._finish_round: [players, match, winner, crash, state]
finish_round(ps, mt, mode, best_of, p1_dead, p2_dead) ==
    LET scored == IF p1_dead /\ p2_dead THEN NoPlayer
                  ELSE IF p1_dead THEN 2 ELSE 1
        ps2 == IF scored = NoPlayer THEN ps
               ELSE [ps EXCEPT ![scored].score = @ + 1]
        mt2 == [rounds_played |-> mt.rounds_played + 1,
                p1_round_wins |-> mt.p1_round_wins + (IF scored = 1 THEN 1 ELSE 0),
                p2_round_wins |-> mt.p2_round_wins + (IF scored = 2 THEN 1 ELSE 0)]
    IN  [players |-> ps2, match |-> mt2, winner |-> scored,
         crash |-> IF p1_dead /\ p2_dead THEN "Double crash"
                   ELSE IF p1_dead THEN "Player 1 collided"
                   ELSE "Player 2 collided",
         state |-> IF is_match_complete(mode, best_of, mt2)
                   THEN "GAME_OVER" ELSE "ROUND_OVER"]

(***************************************************************************)
(* The initial state: TronGame.__init__, with the settings file holding    *)
(* the defaults but for tournament_best_of, which no screen can change.    *)
(***************************************************************************)
\* the cells the random source of random_open_cell is let to draw
Draws == {<<20, 40>>}

\* the keys of player 1
FirstPlayerKeys == {"K_UP", "K_DOWN", "K_LEFT", "K_RIGHT", "K_RCTRL"}

MenuLimits == [ticks |-> MenuTicks, keys |-> MenuKeys, draws |-> Draws,
               kinds |-> PowerUpTypes, pressed |-> GameKeys]

\* against the AI only player 1's keys are pressed
DuelLimits(mode) ==
    [ticks |-> MaxTicks, keys |-> MaxKeys, draws |-> Draws,
     kinds |-> PowerUpTypes,
     pressed |-> IF mode = "single_player" THEN FirstPlayerKeys ELSE GameKeys]

Init ==
    /\ state = "MAIN_MENU"
    /\ game_mode = "single_player"
    /\ ai_difficulty = "medium"
    /\ tournament_best_of \in BestOfSet
    /\ players = [id \in {1, 2} |-> new_player(id)]
    /\ projectiles = <<>>
    /\ powerups = <<>>
    /\ ticks_since_spawn = 0
    /\ match = MatchInfo
    /\ winner = NoPlayer
    /\ round_stats = None
    /\ tick_accumulator_ms = 0
    /\ simulation_tick = 0
    /\ replay_log = <<>>
    /\ pc = "idle"
    /\ step_ms = DEFAULT_STEP_INTERVAL_MS
    /\ keys_handled = 0
    /\ limits = MenuLimits
    /\ trace = [op |-> "init"]

\* a mutant of ResetRound: the power-up group is not emptied
ResetRound_keeps_powerups(ps) ==
    /\ players' = [id \in {1, 2} |-> reset_round_player(ps[id], id)]
    /\ projectiles' = <<>>
    /\ powerups' = powerups
    /\ replay_log' = <<>>
    /\ tick_accumulator_ms' = 0
    /\ winner' = NoPlayer
    /\ round_stats' = None
    /\ state' = "PLAYING"
    /\ trace' = [op |-> "reset_round",
                 pre |-> players,
                 pre_projectiles |-> projectiles,
                 pre_powerups |-> powerups,
                 pre_events |-> Len(replay_log)]

\* TronGame.reset_round, applied to the players ps
ResetRound(ps) ==
    /\ players' = [id \in {1, 2} |-> reset_round_player(ps[id], id)]
    /\ projectiles' = <<>>
    /\ powerups' = <<>>
    /\ replay_log' = <<>>
    /\ tick_accumulator_ms' = 0
    /\ winner' = NoPlayer
    /\ round_stats' = None
    /\ state' = "PLAYING"
    /\ trace' = [op |-> "reset_round",
                 pre |-> players,
                 pre_projectiles |-> projectiles,
                 pre_powerups |-> powerups,
                 pre_events |-> Len(replay_log)]

\* TronGame.reset_match, applied to the players ps
ResetMatch(ps) ==
    /\ match' = MatchInfo
    /\ ResetRound([id \in {1, 2} |-> [ps[id] EXCEPT !.score = 0]])

\* _handle_menu_input of the main menu with RETURN or SPACE on a start item:
\* set_mode, _refresh_mode (new players), reset_match
StartMatch(mode) ==
    /\ pc = "idle" /\ state = "MAIN_MENU"
    /\ game_mode' = mode
    /\ ResetMatch([id \in {1, 2} |-> new_player(id)])
    /\ UNCHANGED <<ai_difficulty, tournament_best_of, ticks_since_spawn,
                   simulation_tick, pc, step_ms, keys_handled, limits>>

\* the variables a change of screen leaves alone
screen_frame == <<game_mode, tournament_best_of, players, projectiles, powerups,
                  ticks_since_spawn, match, winner, round_stats,
                  tick_accumulator_ms, simulation_tick, replay_log, step_ms,
                  keys_handled, limits, trace>>

\* _handle_menu_input of the main menu: "settings", "scores"
MainMenuScreen(target) ==
    /\ pc = "idle" /\ state = "MAIN_MENU"
    /\ state' = target
    /\ UNCHANGED <<screen_frame, ai_difficulty, pc>>

\* "exit" of the main menu, or K_ESCAPE in the main menu: run() returns
Quit ==
    /\ pc = "idle" /\ state = "MAIN_MENU"
    /\ pc' = "quit"
    /\ UNCHANGED <<screen_frame, ai_difficulty, state>>

\* _handle_events, K_ESCAPE outside the main menu
Escape ==
    /\ pc = "idle"
    /\ state \in {"PLAYING", "PAUSED", "SETTINGS", "HIGH_SCORES"}
    /\ state' = IF state = "PLAYING" THEN "PAUSED" ELSE "MAIN_MENU"
    /\ UNCHANGED <<screen_frame, ai_difficulty, pc>>

\* _handle_menu_input of the pause menu: "resume", "settings", "quit"
PauseMenuGoto(action) ==
    /\ pc = "idle" /\ state = "PAUSED"
    /\ state' = IF action = "resume" THEN "PLAYING"
                ELSE IF action = "settings" THEN "SETTINGS"
                ELSE "MAIN_MENU"
    /\ UNCHANGED <<screen_frame, ai_difficulty, pc>>

\* _handle_menu_input of the pause menu: "restart"
PauseMenuRestart ==
    /\ pc = "idle" /\ state = "PAUSED"
    /\ ResetRound(players)
    /\ UNCHANGED <<game_mode, ai_difficulty, tournament_best_of,
                   ticks_since_spawn, match, simulation_tick, pc, step_ms,
                   keys_handled, limits>>

\* SettingsManager.cycle_difficulty
cycle_difficulty(d) ==
    IF d = "easy" THEN "medium" ELSE IF d = "medium" THEN "hard" ELSE "easy"

\* _handle_settings_input: K_d cycles the difficulty, K_BACKSPACE leaves
SettingsInput(key) ==
    /\ pc = "idle" /\ state = "SETTINGS"
    /\ IF key = "K_d"
       THEN ai_difficulty' = cycle_difficulty(ai_difficulty) /\ state' = state
       ELSE ai_difficulty' = ai_difficulty /\ state' = "MAIN_MENU"
    /\ UNCHANGED <<screen_frame, pc>>

\* _handle_events in HIGH_SCORES (K_BACKSPACE) and in GAME_OVER (K_SPACE,
\* K_RETURN): back to the main menu
BackToMenu ==
    /\ pc = "idle" /\ state \in {"HIGH_SCORES", "GAME_OVER"}
    /\ state' = "MAIN_MENU"
    /\ UNCHANGED <<screen_frame, ai_difficulty, pc>>

\* a mutant of AdvanceAfterRound: the next round starts with reset_match
AdvanceAfterRound_resets_match ==
    /\ pc = "idle" /\ state = "ROUND_OVER"
    /\ ResetMatch(players)
    /\ UNCHANGED <<game_mode, ai_difficulty, tournament_best_of,
                   ticks_since_spawn, simulation_tick, pc, step_ms,
                   keys_handled, limits>>

\* _handle_events in ROUND_OVER (K_SPACE, K_RETURN): _advance_after_round
AdvanceAfterRound ==
    /\ pc = "idle" /\ state = "ROUND_OVER"
    /\ ResetRound(players)
    /\ UNCHANGED <<game_mode, ai_difficulty, tournament_best_of,
                   ticks_since_spawn, match, simulation_tick, pc, step_ms,
                   keys_handled, limits>>

\* a mutant of gameplay_input: the shoot key fires without looking at ammo
gameplay_input_fires_empty(acc, id, key) ==
    LET queued == queue_turn(acc.players[id], id, key)
    IN  IF key = shoot_key(id)
        THEN [players |-> [acc.players EXCEPT
                             ![id] = [queued EXCEPT !.ammo = queued.ammo - 1]],
              projectiles |-> Append(acc.projectiles,
                                [owner_id |-> id, position |-> queued.position,
                                 direction |-> queued.direction])]
        ELSE [acc EXCEPT !.players[id] = queued]

\* _handle_gameplay_input, for one player: queue_turn, then fire; acc is
\* [players, projectiles]
gameplay_input(acc, id, key) ==
    LET queued == queue_turn(acc.players[id], id, key)
    IN  IF key = shoot_key(id) /\ queued.ammo > 0
        THEN [players |-> [acc.players EXCEPT
                             ![id] = [queued EXCEPT !.ammo = queued.ammo - 1]],
              projectiles |-> Append(acc.projectiles,
                                [owner_id |-> id, position |-> queued.position,
                                 direction |-> queued.direction])]
        ELSE [acc EXCEPT !.players[id] = queued]

\* TronGame._handle_gameplay_input
HandleGameplayInput(key) ==
    /\ pc = "idle" /\ state = "PLAYING"
    /\ keys_handled < limits.keys /\ key \in limits.pressed
    /\ LET a1 == gameplay_input([players |-> players, projectiles |-> projectiles],
                                1, key)
           a2 == gameplay_input(a1, 2, key)
       IN  /\ players' = a2.players
           /\ projectiles' = a2.projectiles
    /\ keys_handled' = keys_handled + 1
    /\ trace' = [op |-> "key", key |-> key, pre |-> players,
                 pre_projectiles |-> projectiles]
    /\ UNCHANGED <<state, game_mode, ai_difficulty, tournament_best_of,
                   powerups, ticks_since_spawn, match, winner, round_stats,
                   tick_accumulator_ms, simulation_tick, replay_log, pc, step_ms,
                   limits>>

\* _simulate_step, the single-player block: the AI's heading becomes player
\* 2's pending heading and a shot spends ammo; [players, projectiles]
ai_step(ps, projs, choice, shoot) ==
    [players |-> [ps EXCEPT
                    ![2].pending_direction = choice,
                    ![2].ammo = IF shoot THEN ps[2].ammo - 1 ELSE ps[2].ammo],
     projectiles |-> IF shoot
                     THEN Append(projs, [owner_id |-> 2,
                                         position |-> ps[2].position,
                                         direction |-> ps[2].direction])
                     ELSE projs]

\* the GameSnapshot _simulate_step hands to the AI
snapshot_of(ps) ==
    [ai_position |-> ps[2].position, ai_direction |-> ps[2].direction,
     opponent_position |-> ps[1].position, occupied |-> occupied_cells(ps)]

\* _simulate_step up to the end of its projectile loop, for the AI's choice
\* and shot: the players as the turns left them (turned) and the players and
\* projectiles as the projectile loop left them (shot)
step_until_spawn(ps, projs, single, choice, shoot) ==
    LET ai == IF single THEN ai_step(ps, projs, choice, shoot)
              ELSE [players |-> ps, projectiles |-> projs]
        turned == [id \in {1, 2} |-> apply_pending_turn(ai.players[id])]
    IN  [fired |-> ai.projectiles,
         turned |-> turned,
         shot |-> projectile_loop(ai.projectiles, turned, <<>>)]

\* _simulate_step, the movement loop over both players, in the order of
\* self.players: [players, powerups, picked, moved]
movement_loop(ps, group, dead, next_positions) ==
    LET m0 == [players |-> ps, powerups |-> group,
               picked |-> [id \in {1, 2} |-> None], moved |-> ps]
        m1 == move_and_pickup(m0, 1, dead, next_positions)
    IN  move_and_pickup(m1, 2, dead, next_positions)

\* a mutant of step_after_spawn: the deaths are decided with the shields as
\* they were before tick_effects
step_after_spawn_collides_first(cut, occupied, group) ==
    LET effects == [id \in {1, 2} |-> tick_effects(cut[id])]
        next_positions == [id \in {1, 2} |-> next_position(effects[id])]
        dead == simulate_collision(cut, occupied)
        m2 == movement_loop(effects, group, dead, next_positions)
    IN  [effects |-> effects,
         shields |-> [id \in {1, 2} |-> has_shield(cut[id])],
         next_positions |-> next_positions,
         dead |-> dead,
         players |-> m2.players,
         powerups |-> m2.powerups,
         picked |-> m2.picked,
         moved |-> m2.moved]

\* The rest of _simulate_step, from tick_effects to the end of the movement
\* loop, for the players cut as the projectile loop left them
step_after_spawn(cut, occupied, group) ==
    LET effects == [id \in {1, 2} |-> tick_effects(cut[id])]
        next_positions == [id \in {1, 2} |-> next_position(effects[id])]
        dead == simulate_collision(effects, occupied)
        m2 == movement_loop(effects, group, dead, next_positions)
    IN  [effects |-> effects,
         shields |-> [id \in {1, 2} |-> has_shield(effects[id])],
         next_positions |-> next_positions,
         dead |-> dead,
         players |-> m2.players,
         powerups |-> m2.powerups,
         picked |-> m2.picked,
         moved |-> m2.moved]

\* One iteration of the while loop of _update_playing, entered with the
\* accumulator at acc >= step: the accumulator is charged, _simulate_step
\* runs one tick, and the loop is left when the tick ended the round or the
\* accumulator holds less than a step.  (A value bound by \E to a singleton
\* set is a local of the step, evaluated once.)  frame keeps what the frame
\* began with: the accumulator after dt_ms was added and the tick count.
Iterate(acc, step, frame) ==
    /\ tick_accumulator_ms' = acc - step
    /\ LET single == game_mode = "single_player"
       IN
       \E snapshot \in {snapshot_of(players)} :
       \E choice \in (IF single THEN choose_direction(ai_difficulty, snapshot)
                      ELSE {NoDirection}),
          shoot \in (IF single
                     THEN should_shoot(ai_difficulty, snapshot, players[2].ammo)
                     ELSE {FALSE}) :
       \E a \in {step_until_spawn(players, projectiles, single, choice, shoot)} :
       \E occupied \in {occupied_cells(a.shot.players)} :
       \E sp \in maybe_spawn(powerups, ticks_since_spawn, occupied,
                             limits.kinds, limits.draws) :
       \E b \in {step_after_spawn(a.shot.players, occupied, sp.powerups)} :
       \E over \in {b.dead[1] \/ b.dead[2]} :
       \E fin \in {finish_round(b.players, match, game_mode,
                                tournament_best_of, b.dead[1], b.dead[2])} :
          /\ projectiles' = a.shot.projectiles
          /\ powerups' = b.powerups
          /\ ticks_since_spawn' = sp.ticks_since_spawn
          /\ replay_log' = Append(replay_log,
                             [tick |-> simulation_tick,
                              p1 |-> b.players[1].position,
                              p2 |-> b.players[2].position])
          /\ simulation_tick' = simulation_tick + 1
          /\ players' = IF over THEN fin.players ELSE b.players
          /\ match' = IF over THEN fin.match ELSE match
          /\ winner' = IF over THEN fin.winner ELSE winner
          /\ round_stats' = IF over THEN fin.crash ELSE round_stats
          /\ state' = IF over THEN fin.state ELSE state
          /\ pc' = IF ~over /\ acc - step >= step THEN "loop" ELSE "idle"
          /\ trace' = [op |-> "tick",
                       frame |-> frame,
                       pre |-> players,
                       pre_match |-> match,
                       pre_projectiles |-> projectiles,
                       pre_powerups |-> powerups,
                       pre_ticks_since_spawn |-> ticks_since_spawn,
                       ai_shoot |-> shoot,
                       fired |-> a.fired,
                       spawned |-> sp.powerups,
                       effects |-> b.effects,
                       mode |-> game_mode,
                       ai_choice |-> choice,
                       turned |-> a.turned,
                       cut |-> a.shot.players,
                       occupied |-> occupied,
                       shields |-> b.shields,
                       next_positions |-> b.next_positions,
                       dead |-> b.dead,
                       moved |-> b.moved,
                       picked |-> b.picked]
    /\ UNCHANGED <<game_mode, ai_difficulty, tournament_best_of, keys_handled,
                   limits>>

\* a mutant of UpdatePlaying: a tick runs only when the accumulator exceeds
\* the step
UpdatePlaying_strict(dt_ms) ==
    /\ pc = "idle" /\ state = "PLAYING"
    /\ LET acc == tick_accumulator_ms + dt_ms
           step == IF \E id \in {1, 2} : players[id].power_state.speed_timer > 0
                   THEN (DEFAULT_STEP_INTERVAL_MS * 3) \div 4
                   ELSE DEFAULT_STEP_INTERVAL_MS
       IN  /\ simulation_tick + (acc \div step) <= limits.ticks
           /\ step_ms' = step
           /\ IF acc > step
              THEN Iterate(acc, step, [ms |-> acc, tick |-> simulation_tick,
                             speed_timers |->
                                [id \in {1, 2} |->
                                    players[id].power_state.speed_timer]])
              ELSE /\ tick_accumulator_ms' = acc
                   /\ trace' = [op |-> "frame",
                                frame |-> [ms |-> acc, tick |-> simulation_tick,
                             speed_timers |->
                                [id \in {1, 2} |->
                                    players[id].power_state.speed_timer]]]
                   /\ UNCHANGED <<state, game_mode, ai_difficulty,
                                  tournament_best_of, players, projectiles,
                                  powerups, ticks_since_spawn, match, winner,
                                  round_stats, simulation_tick, replay_log, pc,
                                  keys_handled, limits>>

\* a mutant of UpdatePlaying: the step of the frame before is used again
UpdatePlaying_cached_step(dt_ms) ==
    /\ pc = "idle" /\ state = "PLAYING"
    /\ LET acc == tick_accumulator_ms + dt_ms
           step == step_ms
       IN  /\ simulation_tick + (acc \div step) <= limits.ticks
           /\ step_ms' = step
           /\ IF acc >= step
              THEN Iterate(acc, step, [ms |-> acc, tick |-> simulation_tick,
                             speed_timers |->
                                [id \in {1, 2} |->
                                    players[id].power_state.speed_timer]])
              ELSE /\ tick_accumulator_ms' = acc
                   /\ trace' = [op |-> "frame",
                                frame |-> [ms |-> acc, tick |-> simulation_tick,
                             speed_timers |->
                                [id \in {1, 2} |->
                                    players[id].power_state.speed_timer]]]
                   /\ UNCHANGED <<state, game_mode, ai_difficulty,
                                  tournament_best_of, players, projectiles,
                                  powerups, ticks_since_spawn, match, winner,
                                  round_stats, simulation_tick, replay_log, pc,
                                  keys_handled, limits>>

\* TronGame._update_playing: the frame's dt_ms is added, step_ms is chosen,
\* and the while loop is entered (its first iteration, if any, runs here)
UpdatePlaying(dt_ms) ==
    /\ pc = "idle" /\ state = "PLAYING"
    /\ LET acc == tick_accumulator_ms + dt_ms
           step == IF \E id \in {1, 2} : players[id].power_state.speed_timer > 0
                   THEN (DEFAULT_STEP_INTERVAL_MS * 3) \div 4
                   ELSE DEFAULT_STEP_INTERVAL_MS
       IN  /\ simulation_tick + (acc \div step) <= limits.ticks
           /\ step_ms' = step
           /\ IF acc >= step
              THEN Iterate(acc, step, [ms |-> acc, tick |-> simulation_tick,
                             speed_timers |->
                                [id \in {1, 2} |->
                                    players[id].power_state.speed_timer]])
              ELSE /\ tick_accumulator_ms' = acc
                   /\ trace' = [op |-> "frame",
                                frame |-> [ms |-> acc, tick |-> simulation_tick,
                             speed_timers |->
                                [id \in {1, 2} |->
                                    players[id].power_state.speed_timer]]]
                   /\ UNCHANGED <<state, game_mode, ai_difficulty,
                                  tournament_best_of, players, projectiles,
                                  powerups, ticks_since_spawn, match, winner,
                                  round_stats, simulation_tick, replay_log, pc,
                                  keys_handled, limits>>

\* TronGame._update_playing, a further iteration of its while loop
ContinueUpdate ==
    /\ pc = "loop"
    /\ Iterate(tick_accumulator_ms, step_ms, trace.frame)
    /\ step_ms' = step_ms

Next ==
    \/ \E mode \in GameModes : StartMatch(mode)
    \/ \E target \in {"SETTINGS", "HIGH_SCORES"} : MainMenuScreen(target)
    \/ Quit
    \/ Escape
    \/ \E action \in {"resume", "settings", "quit"} : PauseMenuGoto(action)
    \/ PauseMenuRestart
    \/ \E key \in {"K_d", "K_BACKSPACE"} : SettingsInput(key)
    \/ BackToMenu
    \/ AdvanceAfterRound
    \/ \E key \in GameKeys : HandleGameplayInput(key)
    \/ \E dt_ms \in DtSet : UpdatePlaying(dt_ms)
    \/ ContinueUpdate

Spec == Init /\ [][Next]_vars

(***************************************************************************)
(* The duels: the game right after a match was started from the main menu, *)
(* in one of a few settings, and the handlers of a match under way.        *)
(***************************************************************************)
DuelSettings ==
    {[game_mode |-> "single_player", ai_difficulty |-> "easy", best_of |-> 3],
     [game_mode |-> "tournament", ai_difficulty |-> "medium", best_of |-> 3],
     [game_mode |-> "tournament", ai_difficulty |-> "medium", best_of |-> -2]}

InitDuel ==
    /\ \E s \in DuelSettings :
        /\ game_mode = s.game_mode
        /\ ai_difficulty = s.ai_difficulty
        /\ tournament_best_of = s.best_of
    /\ state = "PLAYING"
    /\ players = [id \in {1, 2} |-> new_player(id)]
    /\ projectiles = <<>>
    /\ powerups = <<>>
    /\ ticks_since_spawn = 0
    /\ match = MatchInfo
    /\ winner = NoPlayer
    /\ round_stats = None
    /\ tick_accumulator_ms = 0
    /\ simulation_tick = 0
    /\ replay_log = <<>>
    /\ pc = "idle"
    /\ step_ms = DEFAULT_STEP_INTERVAL_MS
    /\ keys_handled = 0
    /\ limits = DuelLimits(game_mode)
    /\ trace = [op |-> "init"]

NextDuel ==
    \/ \E key \in GameKeys : HandleGameplayInput(key)
    \/ \E dt_ms \in DtSet : UpdatePlaying(dt_ms)
    \/ ContinueUpdate
    \/ AdvanceAfterRound

SpecDuel == InitDuel /\ [][NextDuel]_vars

(***************************************************************************)
(* The collision helper on its own: detect_round_collision is a pure       *)
(* function, applied here to arguments drawn from bounded sets.            *)
(***************************************************************************)
\* cells on the playfield and positions off each of its edges
CollisionCells == {<<0, 20>>, <<10, 20>>, <<20, 20>>}

OffField == {<<-GRID_SIZE, 20>>, <<SCREEN_WIDTH, 20>>, <<10, -GRID_SIZE>>,
             <<10, SCREEN_HEIGHT>>}

InitCollision ==
    /\ state = "PLAYING"
    /\ game_mode = "multiplayer"
    /\ ai_difficulty = "medium"
    /\ tournament_best_of = 3
    /\ players = [id \in {1, 2} |-> new_player(id)]
    /\ projectiles = <<>>
    /\ powerups = <<>>
    /\ ticks_since_spawn = 0
    /\ match = MatchInfo
    /\ winner = NoPlayer
    /\ round_stats = None
    /\ tick_accumulator_ms = 0
    /\ simulation_tick = 0
    /\ replay_log = <<>>
    /\ pc = "idle"
    /\ step_ms = DEFAULT_STEP_INTERVAL_MS
    /\ keys_handled = 0
    /\ limits = MenuLimits
    /\ \E next_positions \in [{1, 2} -> CollisionCells \cup OffField],
          current_positions \in [{1, 2} -> CollisionCells],
          occupied \in SUBSET CollisionCells,
          shields \in [{1, 2} -> BOOLEAN] :
          trace = [op |-> "arguments", next_positions |-> next_positions,
                   occupied |-> occupied, shields |-> shields,
                   current_positions |-> current_positions]

\* a call of detect_round_collision
DetectRoundCollision ==
    /\ trace.op = "arguments"
    /\ trace' = [op |-> "detect_round_collision",
                 next_positions |-> trace.next_positions,
                 occupied |-> trace.occupied,
                 shields |-> trace.shields,
                 current_positions |-> trace.current_positions,
                 dead |-> detect_round_collision(trace.next_positions,
                              trace.occupied, trace.shields,
                              trace.current_positions)]
    /\ UNCHANGED <<state, game_mode, ai_difficulty, tournament_best_of, players,
                   projectiles, powerups, ticks_since_spawn, match, winner,
                   round_stats, tick_accumulator_ms, simulation_tick, replay_log,
                   pc, step_ms, keys_handled, limits>>

NextCollision == DetectRoundCollision

SpecCollision == InitCollision /\ [][NextCollision]_vars

(***************************************************************************)
(* Trail bookkeeping.                                                      *)
(***************************************************************************)
\* C1: at every moment of a match, for each cycle, the trail list and the
\* trail set hold the same cells and the list holds each cell once (the
\* length of the list is the size of the set).
C1_TrailMatchesTrailSet ==
    \A id \in {1, 2} :
        /\ Range(players[id].trail) = players[id].trail_set
        /\ Len(players[id].trail) = Cardinality(players[id].trail_set)

(***************************************************************************)
(* Collisions.                                                             *)
(***************************************************************************)
\* the next positions are one cell, or each is the other's current position
HeadOnOrSwap(next_positions, current_positions) ==
    \/ next_positions[1] = next_positions[2]
    \/ /\ next_positions[1] = current_positions[2]
       /\ next_positions[2] = current_positions[1]

\* C2: when the two next positions are identical, or each cycle's next
\* position is the other's current position, both cycles are marked dead,
\* whatever the occupied set and the shields are.
C2_HeadOnKillsBoth ==
    (/\ trace.op = "detect_round_collision"
     /\ HeadOnOrSwap(trace.next_positions, trace.current_positions))
    => trace.dead[1] /\ trace.dead[2]

\* C2, its case: two shielded cycles swap cells that nothing occupies, and
\* both are dead
C2_Witness ==
    /\ trace.op = "detect_round_collision"
    /\ trace.next_positions[1] = trace.current_positions[2]
    /\ trace.next_positions[2] = trace.current_positions[1]
    /\ trace.next_positions[1] # trace.next_positions[2]
    /\ trace.shields[1] /\ trace.shields[2]
    /\ trace.occupied = {}
    /\ trace.dead[1] /\ trace.dead[2]

\* C4: a cycle whose next position is outside the playfield (a negative
\* coordinate, or one at or past the extent) is marked dead, also when its
\* shield is active; the call yields a result for every such position.
C4_OutOfBoundsKills ==
    trace.op = "detect_round_collision"
    => /\ trace.dead \in [{1, 2} -> BOOLEAN]
       /\ \A id \in {1, 2} :
            LET nxt == trace.next_positions[id]
            IN  (\/ nxt[1] < 0 \/ nxt[1] >= SCREEN_WIDTH
                 \/ nxt[2] < 0 \/ nxt[2] >= SCREEN_HEIGHT)
                => trace.dead[id]

\* C4, its case: a shielded cycle leaves the playfield alone and is dead,
\* while the other one lives
C4_Witness ==
    /\ trace.op = "detect_round_collision"
    /\ trace.next_positions[1] = <<SCREEN_WIDTH, 20>>
    /\ trace.shields[1]
    /\ trace.dead[1] /\ ~trace.dead[2]

\* the pre-move positions of a tick, as its collision logic reads them
TickPositions == [id \in {1, 2} |-> trace.cut[id].position]

\* C3: in a tick, a cycle whose next position is on the playfield and in the
\* occupied set taken before the move is marked dead when its shield is not
\* active; with an active shield, and no head-on or swap in that tick, it is
\* not marked dead.
C3_OccupiedCellKillsUnshielded ==
    trace.op = "tick"
    => \A id \in {1, 2} :
         LET nxt == trace.next_positions[id]
         IN  (in_bounds(nxt) /\ nxt \in trace.occupied)
             => /\ ~trace.shields[id] => trace.dead[id]
                /\ (/\ trace.shields[id]
                    /\ ~HeadOnOrSwap(trace.next_positions, TickPositions))
                   => ~trace.dead[id]

\* C3, its case: a shielded cycle has entered an occupied cell and lives
C3_Witness ==
    /\ trace.op = "tick"
    /\ trace.shields[1]
    /\ trace.next_positions[1] \in trace.occupied
    /\ ~trace.dead[1]
    /\ players[1].position = trace.next_positions[1]
    /\ state = "PLAYING"

(***************************************************************************)
(* The movement step of a tick.                                            *)
(***************************************************************************)
\* C5: in a tick, the movement step appends the pre-tick position of each
\* cycle that is not marked dead as the last element of its trail, adds it
\* to the trail set, and sets its position to the pre-tick position plus
\* its heading times the cell size; a cycle marked dead keeps its position
\* and its trail exactly as they were before the movement step.
C5_MovementStep ==
    trace.op = "tick"
    => \A id \in {1, 2} :
         LET before == trace.cut[id]
             after == trace.moved[id]
             was == trace.pre[id].position
         IN  IF trace.dead[id]
             THEN /\ players[id].position = was
                  /\ players[id].trail = before.trail
                  /\ players[id].trail_set = before.trail_set
             ELSE /\ after.trail = Append(before.trail, was)
                  /\ after.trail_set = before.trail_set \cup {was}
                  /\ after.position =
                       <<was[1] + trace.turned[id].direction[1] * GRID_SIZE,
                         was[2] + trace.turned[id].direction[2] * GRID_SIZE>>
                  /\ players[id].position = after.position
                  /\ trace.picked[id] # "eraser"
                     => /\ players[id].trail = after.trail
                        /\ players[id].trail_set = after.trail_set

\* C5, its case: in one tick cycle 1 has moved on after a turn, its trail
\* grown by the cell it left, and cycle 2 was marked dead and has stayed
C5_Witness ==
    /\ trace.op = "tick"
    /\ ~trace.dead[1] /\ trace.dead[2]
    /\ trace.turned[1].direction # trace.pre[1].direction
    /\ players[1].position # trace.pre[1].position
    /\ Len(players[1].trail) = Len(trace.pre[1].trail) + 1
    /\ players[2].position = trace.pre[2].position
    /\ Len(players[2].trail) > 0

(***************************************************************************)
(* The end of a round.                                                     *)
(***************************************************************************)
\* some cycle was marked dead in the tick just taken
SomeDead == trace.dead[1] \/ trace.dead[2]

\* two cycles with one free cell between them, or none, heading at each other
FacingOneCellApart(ps) ==
    /\ is_opposite(ps[1].direction, ps[2].direction)
    /\ \/ add_direction(ps[1].position, ps[1].direction, 2 * GRID_SIZE)
            = ps[2].position
       \/ add_direction(ps[1].position, ps[1].direction, GRID_SIZE)
            = ps[2].position

\* C6: a tick ends the round exactly when it marked at least one cycle
\* dead: the state is then ROUND_OVER or GAME_OVER at the end of that tick,
\* and is still PLAYING when nobody died; two cycles one cell apart heading
\* at each other end the round in one tick, both dead.
C6_RoundEndsIffSomeDead ==
    [][simulation_tick' = simulation_tick + 1
       => /\ state = "PLAYING"
          /\ trace'.op = "tick"
          /\ IF trace'.dead[1] \/ trace'.dead[2]
             THEN state' \in {"ROUND_OVER", "GAME_OVER"}
             ELSE state' = "PLAYING"
          /\ FacingOneCellApart(trace'.turned)
             => /\ trace'.dead[1] /\ trace'.dead[2]
                /\ state' \in {"ROUND_OVER", "GAME_OVER"}]_vars

\* C6, its case: the cycles met head-on, one cell between them, and the
\* round is over with both dead
C6_Witness ==
    /\ trace.op = "tick"
    /\ FacingOneCellApart(trace.turned)
    /\ trace.dead[1] /\ trace.dead[2]
    /\ state = "ROUND_OVER"
    /\ round_stats = "Double crash"

\* C7: at the end of a round, when both cycles are dead there is no winner
\* and no score or round-win count changes; when only cycle 1 is dead,
\* cycle 2's score and round wins each grow by one and nothing of cycle 1
\* changes, and symmetrically; rounds played grows by one in every case.
C7_RoundScoring ==
    (trace.op = "tick" /\ SomeDead)
    => LET gain(id) == IF ~trace.dead[id] THEN 1 ELSE 0
       IN  /\ winner = (IF trace.dead[1] /\ trace.dead[2] THEN NoPlayer
                        ELSE IF trace.dead[1] THEN 2 ELSE 1)
           /\ \A id \in {1, 2} :
                players[id].score = trace.pre[id].score + gain(id)
           /\ match.p1_round_wins = trace.pre_match.p1_round_wins + gain(1)
           /\ match.p2_round_wins = trace.pre_match.p2_round_wins + gain(2)
           /\ match.rounds_played = trace.pre_match.rounds_played + 1

\* C7, its case: in a second round only cycle 1 died, and cycle 2 has the
\* score and the round win
C7_Witness ==
    /\ trace.op = "tick"
    /\ trace.dead[1] /\ ~trace.dead[2]
    /\ winner = 2
    /\ players[2].score = trace.pre[2].score + 1
    /\ players[1].score = trace.pre[1].score
    /\ match.p2_round_wins = trace.pre_match.p2_round_wins + 1
    /\ match.rounds_played = 2

\* C8: outside tournament mode the match is over (GAME_OVER) after a single
\* round; in tournament mode a round end leads to GAME_OVER exactly when a
\* round-win count has reached floor(bestOf / 2) + 1, and to ROUND_OVER
\* otherwise, and no round-win count ever exceeds that threshold.
C8_MatchCompletion ==
    LET threshold == (tournament_best_of \div 2) + 1
    IN  /\ match.p1_round_wins <= threshold
        /\ match.p2_round_wins <= threshold
        /\ (trace.op = "tick" /\ SomeDead)
           => IF game_mode # "tournament"
              THEN state = "GAME_OVER" /\ match.rounds_played = 1
              ELSE state = (IF \/ match.p1_round_wins >= threshold
                               \/ match.p2_round_wins >= threshold
                            THEN "GAME_OVER" ELSE "ROUND_OVER")

(***************************************************************************)
(* Turns.                                                                  *)
(***************************************************************************)
\* C9: no tick reverses a cycle's heading, for a human's queued turn and
\* for the AI's assigned one alike; a key asking for the reverse of the
\* current heading leaves the pending heading unchanged; the pending
\* heading is empty after the turn was applied.
C9_NoReverse ==
    /\ trace.op = "tick"
       => \A id \in {1, 2} :
            /\ ~is_opposite(trace.turned[id].direction, trace.pre[id].direction)
            /\ players[id].direction = trace.turned[id].direction
            /\ trace.turned[id].pending_direction = NoDirection
            /\ players[id].pending_direction = NoDirection
    /\ trace.op = "key"
       => \A id \in {1, 2} :
            (/\ trace.key \in DOMAIN controls(id)
             /\ is_opposite(controls(id)[trace.key], trace.pre[id].direction))
            => players[id].pending_direction = trace.pre[id].pending_direction

\* C9, its case: with a turn queued, player 1 pressed the key of the
\* reverse of its heading, and the queued turn is still the pending one
C9_Witness ==
    /\ trace.op = "key"
    /\ trace.key \in DOMAIN controls(1)
    /\ is_opposite(controls(1)[trace.key], trace.pre[1].direction)
    /\ trace.pre[1].pending_direction # NoDirection
    /\ players[1].pending_direction = trace.pre[1].pending_direction

(***************************************************************************)
(* The AI on its own: choose_direction applied to snapshots drawn from     *)
(* bounded sets, for each difficulty and each outcome of the random source.*)
(***************************************************************************)
\* the largest number of occupied cells of a drawn snapshot
MaxOccupied == 3

\* a corner, an inner cell and a cell near the right edge
AIPositions == {<<0, 0>>, <<20, 20>>, <<70, 20>>}

OpponentPositions == {<<60, 20>>, <<20, 10>>}

\* the cells a drawn snapshot may hold as occupied
OccupiedCells == {<<10, 0>>, <<0, 10>>, <<10, 20>>, <<30, 20>>, <<20, 10>>,
                  <<20, 30>>, <<40, 20>>, <<60, 20>>}

\* the trails of a round late in play: they wall in a corridor of 4 cells
\* above the cell <<30, 50>> and leave a region of 11 cells to its right
WalledTrails ==
    {<<20, 10>>, <<20, 20>>, <<20, 30>>, <<20, 40>>, <<20, 50>>,
     <<40, 10>>, <<40, 20>>, <<40, 30>>, <<40, 40>>,
     <<10, 0>>, <<20, 0>>, <<30, 0>>, <<40, 0>>, <<50, 0>>, <<60, 0>>,
     <<70, 0>>, <<70, 10>>, <<60, 10>>, <<50, 10>>, <<50, 20>>, <<60, 20>>}

\* the AI at the bottom of the corridor, the opponent in the far corner; and
\* the same with the trail cell <<70, 10>> erased, which gives the region to
\* the right one cell more
WalledSnapshots ==
    {[ai_position |-> <<30, 50>>, ai_direction |-> d,
      opponent_position |-> <<0, 0>>,
      occupied |-> (WalledTrails \ erased) \cup {<<30, 50>>, <<0, 0>>}] :
        d \in {UP, RIGHT}, erased \in {{}, {<<70, 10>>}}}

Snapshots ==
    {[ai_position |-> p, ai_direction |-> d, opponent_position |-> o,
      occupied |-> occ] :
        p \in AIPositions, d \in DirSet, o \in OpponentPositions,
        occ \in {c \in SUBSET OccupiedCells : Cardinality(c) <= MaxOccupied}}
    \cup WalledSnapshots

InitAI ==
    /\ state = "PLAYING"
    /\ game_mode = "single_player"
    /\ ai_difficulty \in Difficulties
    /\ tournament_best_of = 3
    /\ players = [id \in {1, 2} |-> new_player(id)]
    /\ projectiles = <<>>
    /\ powerups = <<>>
    /\ ticks_since_spawn = 0
    /\ match = MatchInfo
    /\ winner = NoPlayer
    /\ round_stats = None
    /\ tick_accumulator_ms = 0
    /\ simulation_tick = 0
    /\ replay_log = <<>>
    /\ pc = "idle"
    /\ step_ms = DEFAULT_STEP_INTERVAL_MS
    /\ keys_handled = 0
    /\ limits = MenuLimits
    /\ \E snapshot \in Snapshots :
          trace = [op |-> "snapshot", snapshot |-> snapshot]

\* a call of TronAI.choose_direction
ChooseDirection ==
    /\ trace.op = "snapshot"
    /\ \E direction \in choose_direction(ai_difficulty, trace.snapshot) :
          trace' = [op |-> "choose_direction", snapshot |-> trace.snapshot,
                    direction |-> direction]
    /\ UNCHANGED <<state, game_mode, ai_difficulty, tournament_best_of, players,
                   projectiles, powerups, ticks_since_spawn, match, winner,
                   round_stats, tick_accumulator_ms, simulation_tick, replay_log,
                   pc, step_ms, keys_handled, limits>>

NextAI == ChooseDirection

SpecAI == InitAI /\ [][NextAI]_vars

\* C10: for every snapshot and each of the three difficulties,
\* choose_direction never returns the heading opposite to the AI's current
\* heading.
C10_AINeverReverses ==
    trace.op = "choose_direction"
    => /\ trace.direction \in DirSet
       /\ ~is_opposite(trace.direction, trace.snapshot.ai_direction)

\* C10, its case: in the corner, heading at the wall, the only free
\* neighbour cell is the one behind, and the hard AI keeps its heading
C10_Witness ==
    /\ trace.op = "choose_direction"
    /\ ai_difficulty = "hard"
    /\ trace.snapshot.ai_position = <<0, 0>>
    /\ trace.snapshot.ai_direction = LEFT
    /\ trace.snapshot.occupied = {<<0, 10>>}
    /\ trace.direction = LEFT

(***************************************************************************)
(* The movement loop on its own: the last part of _simulate_step, applied  *)
(* to rounds under way drawn from bounded sets.                            *)
(***************************************************************************)
\* a cycle of a round under way
cycle(id, position, direction, trail, ammo, speed_timer, shield_timer) ==
    [new_player(id) EXCEPT
        !.position = position, !.direction = direction, !.trail = trail,
        !.trail_set = Range(trail), !.ammo = ammo,
        !.power_state = [speed_timer |-> speed_timer,
                         shield_timer |-> shield_timer]]

\* cycle 1 at <<20, 20>> heading right: after a straight run, or after a
\* loop that has left its own trail on the cell ahead
FirstCycles ==
    {cycle(1, <<20, 20>>, RIGHT, trail, ammo, speed_timer, shield_timer) :
        trail \in {<< <<10, 20>> >>,
                   << <<30, 20>>, <<30, 30>>, <<20, 30>> >>},
        ammo \in {0, 1}, speed_timer \in {0, 2}, shield_timer \in {0, 2}}

\* cycle 2 heading left: at the cell ahead of cycle 1, or at that cell's
\* far neighbour (a head-on), or on another row
SecondCycles ==
    {cycle(2, c.position, LEFT, c.trail, ammo, 0, shield_timer) :
        c \in {[position |-> <<40, 20>>, trail |-> << <<50, 20>> >>],
               [position |-> <<60, 30>>, trail |-> << <<70, 30>> >>]},
        ammo \in {0, 1}, shield_timer \in {0, 2}}

\* the power-up groups: up to two power-ups on the cells ahead of the cycles
PowerUpGroups ==
    LET pus == {[kind |-> kind, position |-> position] :
                   kind \in PowerUpTypes, position \in {<<30, 20>>, <<50, 30>>}}
    IN  {<<>>} \cup {<<p>> : p \in pus} \cup {<<p, q>> : p \in pus, q \in pus}

InitMove ==
    /\ state = "PLAYING"
    /\ game_mode = "multiplayer"
    /\ ai_difficulty = "medium"
    /\ tournament_best_of = 3
    /\ players \in {<<a, b>> : a \in FirstCycles, b \in SecondCycles}
    /\ projectiles = <<>>
    /\ powerups \in PowerUpGroups
    /\ ticks_since_spawn = 0
    /\ match = MatchInfo
    /\ winner = NoPlayer
    /\ round_stats = None
    /\ tick_accumulator_ms = 0
    /\ simulation_tick = 0
    /\ replay_log = <<>>
    /\ pc = "idle"
    /\ step_ms = DEFAULT_STEP_INTERVAL_MS
    /\ keys_handled = 0
    /\ limits = MenuLimits
    /\ trace = [op |-> "cycles"]

\* _simulate_step from the collision logic to the end of the movement loop
MovementLoop ==
    /\ trace.op = "cycles"
    /\ LET next_positions == [id \in {1, 2} |-> next_position(players[id])]
           dead == simulate_collision(players, occupied_cells(players))
           m == movement_loop(players, powerups, dead, next_positions)
       IN  /\ players' = m.players
           /\ powerups' = m.powerups
           /\ trace' = [op |-> "movement_loop", pre |-> players,
                        pre_powerups |-> powerups, dead |-> dead,
                        next_positions |-> next_positions,
                        picked |-> m.picked, moved |-> m.moved]
    /\ UNCHANGED <<state, game_mode, ai_difficulty, tournament_best_of,
                   projectiles, ticks_since_spawn, match, winner, round_stats,
                   tick_accumulator_ms, simulation_tick, replay_log, pc,
                   step_ms, keys_handled, limits>>

NextMove == MovementLoop

SpecMove == InitMove /\ [][NextMove]_vars

\* the number of power-ups the movement loop gave to the cycles
PickedCount ==
    Cardinality({id \in {1, 2} : trace.picked[id] # None})

\* C11: a cycle marked dead in a tick picks up no power-up in that tick: its
\* timers, ammo and trail are as before the movement loop and no power-up
\* is removed on its behalf, also when its next position holds a power-up.
C11_DeadCyclePicksNothing ==
    trace.op = "movement_loop"
    => /\ \A id \in {1, 2} :
            trace.dead[id]
            => /\ trace.picked[id] = None
               /\ players[id] = trace.pre[id]
       /\ Len(powerups) = Len(trace.pre_powerups) - PickedCount
       /\ (trace.dead[1] /\ trace.dead[2]) => powerups = trace.pre_powerups

\* C11, its case: both cycles died head-on over a cell that holds a
\* power-up, and the power-up is still there
C11_Witness ==
    /\ trace.op = "movement_loop"
    /\ trace.dead[1] /\ trace.dead[2]
    /\ trace.next_positions[1] = trace.next_positions[2]
    /\ first_hit(trace.next_positions[1], trace.pre_powerups) # 0
    /\ powerups = trace.pre_powerups
    /\ players = trace.pre

\* how often the power-up pu is in the group
CountIn(group, pu) ==
    Cardinality({i \in DOMAIN group : group[i] = pu})

\* the cycles that picked the power-up pu in the movement loop
PickersOf(pu) ==
    {id \in {1, 2} : /\ trace.picked[id] = pu.kind
                     /\ trace.next_positions[id] = pu.position}

\* C17: a pickup applies the power-up's effect once and removes that
\* power-up: speed sets the picker's speed timer and nothing else, shield its
\* shield timer only, weapon adds the fixed ammo only, eraser changes only
\* the picker's own trail; a cycle that picked nothing is as the movement
\* left it.
C17_PickupEffects ==
    trace.op = "movement_loop"
    => /\ \A id \in {1, 2} :
            LET kind == trace.picked[id]
                mv == trace.moved[id]
                pl == players[id]
            IN  /\ kind = None => pl = mv
                /\ kind = "speed"
                   => pl = [mv EXCEPT !.power_state.speed_timer = SpeedTicks]
                /\ kind = "shield"
                   => pl = [mv EXCEPT !.power_state.shield_timer = ShieldTicks]
                /\ kind = "weapon"
                   => pl = [mv EXCEPT !.ammo = mv.ammo + WeaponAmmo]
                /\ kind = "eraser"
                   => /\ pl = [mv EXCEPT !.trail = pl.trail,
                                         !.trail_set = pl.trail_set]
                      /\ Len(pl.trail)
                            = Len(mv.trail) - Min(EraserCount, Len(mv.trail))
                /\ kind # None
                   => /\ ~trace.dead[id]
                      /\ CountIn(trace.pre_powerups,
                                 [kind |-> kind, position |-> pl.position]) > 0
       /\ \A pu \in Range(trace.pre_powerups) :
            CountIn(powerups, pu)
                = CountIn(trace.pre_powerups, pu) - Cardinality(PickersOf(pu))
       /\ Range(powerups) \subseteq Range(trace.pre_powerups)

\* C17, its case: cycle 1 drove onto a cell with two power-ups and picked
\* the weapon, the other power-up is still there and cycle 2 got nothing
C17_Witness ==
    /\ trace.op = "movement_loop"
    /\ trace.picked[1] = "weapon"
    /\ trace.pre[1].ammo = 1
    /\ players[1].ammo = 1 + WeaponAmmo
    /\ trace.picked[2] = None
    /\ players[2] = trace.moved[2]
    /\ Len(trace.pre_powerups) = 2
    /\ Len(powerups) = 1
    /\ powerups[1].position = players[1].position

(***************************************************************************)
(* The round and match state machine.                                      *)
(***************************************************************************)
\* C12: simulation ticks run only in PLAYING; ROUND_OVER is left only to
\* PLAYING, through reset_round, which keeps scores and round-win counts;
\* GAME_OVER is left only to the main menu, and PLAYING is entered from
\* outside a round (not from PLAYING, PAUSED or ROUND_OVER) only from the
\* main menu by a reset_match that zeroes scores, round wins and rounds
\* played; PAUSED and ROUND_OVER are entered only from PLAYING.
C12_StateMachine ==
    [][/\ simulation_tick' # simulation_tick => state = "PLAYING"
       /\ (state = "ROUND_OVER" /\ state' # "ROUND_OVER")
          => /\ state' = "PLAYING"
             /\ trace'.op = "reset_round"
             /\ match' = match
             /\ players' = [id \in {1, 2} |->
                              reset_round_player(players[id], id)]
             /\ \A id \in {1, 2} : players'[id].score = players[id].score
       /\ (state = "GAME_OVER" /\ state' # "GAME_OVER") => state' = "MAIN_MENU"
       /\ (state' = "PLAYING" /\ state \notin {"PLAYING", "PAUSED", "ROUND_OVER"})
          => /\ state = "MAIN_MENU"
             /\ trace'.op = "reset_round"
             /\ match' = MatchInfo
             /\ \A id \in {1, 2} : players'[id].score = 0
       /\ (state' = "PAUSED" /\ state # "PAUSED") => state = "PLAYING"
       /\ (state' = "ROUND_OVER" /\ state # "ROUND_OVER") => state = "PLAYING"
      ]_vars

\* C12, its case: a round with a winner was left through reset_round, and
\* the next round is under way with the score and the round win kept
C12_Witness ==
    /\ state = "PLAYING"
    /\ trace.op = "reset_round"
    /\ match.rounds_played = 1
    /\ match.p2_round_wins = 1
    /\ players[2].score = 1
    /\ players[2].position = start_pos(2)

(***************************************************************************)
(* Round reset.                                                            *)
(***************************************************************************)
\* C13: from any reachable state, resetting a round twice gives the same
\* cycles as resetting once: start position, start heading, no pending
\* heading, empty trail and trail set, zero ammo, zero speed and shield
\* timers, the score unchanged; the state a reset has left is such a state.
C13_ResetIdempotent ==
    /\ \A id \in {1, 2} :
         LET once == reset_round_player(players[id], id)
             twice == reset_round_player(once, id)
         IN  /\ twice = once
             /\ once.position = start_pos(id)
             /\ once.direction = start_dir(id)
             /\ once.pending_direction = NoDirection
             /\ once.trail = <<>> /\ once.trail_set = {}
             /\ once.ammo = 0
             /\ once.power_state.speed_timer = 0
             /\ once.power_state.shield_timer = 0
             /\ once.score = players[id].score
    /\ trace.op = "reset_round"
       => /\ players = [id \in {1, 2} |-> reset_round_player(players[id], id)]
          /\ \A id \in {1, 2} : players[id].score = trace.pre[id].score

\* C13, its case: a round was reset in which cycle 1 had a trail, a running
\* shield timer and the point of the round
C13_Witness ==
    /\ trace.op = "reset_round"
    /\ trace.pre[1].power_state.shield_timer > 0
    /\ Len(trace.pre[1].trail) > 0
    /\ trace.pre[1].score = 1
    /\ players[1].score = 1
    /\ players[1].power_state = PowerState
    /\ players[1].trail = <<>>
    /\ players[1].position = start_pos(1)

\* C14: immediately after reset_round no projectile and no power-up of the
\* round before is live, and the replay log is empty.
C14_ResetClearsRound ==
    trace.op = "reset_round"
    => /\ projectiles = <<>>
       /\ powerups = <<>>
       /\ replay_log = <<>>

\* C14, its case: the round that was reset had a live power-up and a replay
\* log of several ticks
C14_Witness ==
    /\ trace.op = "reset_round"
    /\ Len(trace.pre_powerups) > 0
    /\ trace.pre_events > 2
    /\ powerups = <<>>
    /\ replay_log = <<>>
    /\ state = "PLAYING"

\* C15: immediately after reset_round or reset_match the power-up spawn
\* tick counter is zero.
C15_ResetZeroesSpawnCounter ==
    trace.op = "reset_round" => ticks_since_spawn = 0

(***************************************************************************)
(* LightCycle.consume_trail_segment on its own: the trails are those a     *)
(* cycle leaves behind on a drive of up to MaxWalk moves from its start    *)
(* cell, the cap is any of 0 .. MaxCap.                                    *)
(***************************************************************************)
MaxWalk == 5

MaxCap == 6

\* the cycle after the moves of walk, each a heading taken and a cell moved
\* as the movement step of _simulate_step moves a surviving cycle
RECURSIVE drive(_, _)
drive(pl, walk) ==
    IF walk = <<>> THEN pl
    ELSE drive(move_player([pl EXCEPT !.direction = Head(walk)],
                           add_direction(pl.position, Head(walk), GRID_SIZE)),
               Tail(walk))

\* the cells a walk from position visits
RECURSIVE visited(_, _)
visited(position, walk) ==
    IF walk = <<>> THEN {position}
    ELSE {position}
         \cup visited(add_direction(position, Head(walk), GRID_SIZE), Tail(walk))

\* the walks a cycle can drive: never a reversal, never off the field
Walks ==
    {w \in UNION {[1 .. n -> DirSet] : n \in 0 .. MaxWalk} :
        /\ \A i \in 1 .. Len(w) - 1 : ~is_opposite(w[i], w[i + 1])
        /\ \A c \in visited(start_pos(1), w) : in_bounds(c)}

\* a cycle is on a cell of its own trail only under a shield
\* (_detect_round_collision): the cycle after a walk that came back to a
\* cell has its shield timer running
shielded(pl, walk) ==
    IF Cardinality(visited(start_pos(1), walk)) < Len(walk) + 1
    THEN [pl EXCEPT !.power_state.shield_timer = 1]
    ELSE pl

InitEraser ==
    /\ state = "PLAYING"
    /\ game_mode = "multiplayer"
    /\ ai_difficulty = "medium"
    /\ tournament_best_of = 3
    /\ players \in {<<shielded(drive(new_player(1), w), w), new_player(2)>> :
                        w \in Walks}
    /\ projectiles = <<>>
    /\ powerups = <<>>
    /\ ticks_since_spawn = 0
    /\ match = MatchInfo
    /\ winner = NoPlayer
    /\ round_stats = None
    /\ tick_accumulator_ms = 0
    /\ simulation_tick = 0
    /\ replay_log = <<>>
    /\ pc = "idle"
    /\ step_ms = DEFAULT_STEP_INTERVAL_MS
    /\ keys_handled = 0
    /\ limits = MenuLimits
    /\ trace \in {[op |-> "trail", max_count |-> k] : k \in 0 .. MaxCap}

\* player.consume_trail_segment(max_count)
ConsumeTrailSegment ==
    /\ trace.op = "trail"
    /\ players' = [players EXCEPT
                     ![1] = consume_trail_segment(players[1], trace.max_count)]
    /\ trace' = [op |-> "consume_trail_segment", pre |-> players[1],
                 max_count |-> trace.max_count]
    /\ UNCHANGED <<state, game_mode, ai_difficulty, tournament_best_of,
                   projectiles, powerups, ticks_since_spawn, match, winner,
                   round_stats, tick_accumulator_ms, simulation_tick,
                   replay_log, pc, step_ms, keys_handled, limits>>

NextEraser == ConsumeTrailSegment

SpecEraser == InitEraser /\ [][NextEraser]_vars

\* the eraser took the min(K, N) oldest cells off the front of the trail and
\* left the others in their order
EraserRemovesOldest ==
    trace.op = "consume_trail_segment"
    => LET n == Len(trace.pre.trail)
           r == Min(trace.max_count, n)
       IN  /\ Len(players[1].trail) = n - r
           /\ \A i \in 1 .. n - r : players[1].trail[i] = trace.pre.trail[i + r]

\* the eraser on a trail that holds each cell once leaves the trail and the
\* trail set with the same cells
EraserOnDistinctTrail ==
    (/\ trace.op = "consume_trail_segment"
     /\ Cardinality(Range(trace.pre.trail)) = Len(trace.pre.trail))
    => /\ players[1].trail_set = Range(players[1].trail)
       /\ Cardinality(players[1].trail_set) = Len(players[1].trail)

\* C16: the eraser on a trail of N cells with cap K removes exactly the
\* min(K, N) oldest cells, leaves the remaining cells in their order, and
\* leaves len(trail) = len(trail_set).
C16_EraserRemovesOldest ==
    /\ EraserRemovesOldest
    /\ trace.op = "consume_trail_segment"
       => Len(players[1].trail) = Cardinality(players[1].trail_set)

(***************************************************************************)
(* Rounds under way with armed cycles: the handlers of a match, started    *)
(* in the middle of a round in which the cycles hold ammo and have timers  *)
(* running, against the medium and the hard AI and between two humans.     *)
(***************************************************************************)
ArmedTicks == 2

ArmedKeys == 2

ArmedSettings ==
    {[game_mode |-> "single_player", ai_difficulty |-> "medium"],
     [game_mode |-> "single_player", ai_difficulty |-> "hard"],
     [game_mode |-> "tournament", ai_difficulty |-> "medium"]}

\* cycle 1 one cell into its row, heading right
ArmedFirstCycles ==
    {cycle(1, <<20, 20>>, RIGHT, << <<10, 20>> >>, ammo, 0, shield_timer) :
        ammo \in {0, 2}, shield_timer \in {0, 1, 2}}

\* cycle 2 heading left, on cycle 1's row or on the row below
ArmedSecondCycles ==
    {cycle(2, c.position, LEFT, c.trail, ammo, speed_timer, 0) :
        c \in {[position |-> <<60, 20>>, trail |-> << <<70, 20>> >>],
               [position |-> <<60, 30>>, trail |-> << <<70, 30>> >>]},
        ammo \in {0, 1}, speed_timer \in {0, 1}}

\* every key of either player is pressed, against the AI too
ArmedLimits(mode) ==
    [ticks |-> ArmedTicks, keys |-> ArmedKeys, draws |-> Draws,
     kinds |-> PowerUpTypes, pressed |-> GameKeys]

InitArmed ==
    /\ \E s \in ArmedSettings :
        /\ game_mode = s.game_mode
        /\ ai_difficulty = s.ai_difficulty
        /\ limits = ArmedLimits(s.game_mode)
    /\ tournament_best_of = 3
    /\ state = "PLAYING"
    /\ players \in {<<a, b>> : a \in ArmedFirstCycles, b \in ArmedSecondCycles}
    /\ projectiles = <<>>
    /\ powerups = <<>>
    /\ ticks_since_spawn = 0
    /\ match = MatchInfo
    /\ winner = NoPlayer
    /\ round_stats = None
    /\ tick_accumulator_ms = 0
    /\ simulation_tick = 0
    /\ replay_log = <<>>
    /\ pc = "idle"
    /\ step_ms = DEFAULT_STEP_INTERVAL_MS
    /\ keys_handled = 0
    /\ trace = [op |-> "init"]

SpecArmed == InitArmed /\ [][NextDuel]_vars

\* a timer after one tick: one less when positive, zero when zero
Ticked(timer) == IF timer > 0 THEN timer - 1 ELSE 0

\* C18: every tick takes one off each cycle's speed timer and shield timer
\* when positive and leaves a zero timer at zero, each cycle's timers on
\* their own; no timer is ever negative.
C18_TimersTick ==
    /\ \A id \in {1, 2} :
        /\ players[id].power_state.speed_timer >= 0
        /\ players[id].power_state.shield_timer >= 0
    /\ trace.op = "tick"
       => \A id \in {1, 2} :
            LET before == trace.pre[id].power_state
                ticked == [speed_timer |-> Ticked(before.speed_timer),
                           shield_timer |-> Ticked(before.shield_timer)]
            IN  /\ trace.effects[id].power_state = ticked
                /\ trace.effects[id]
                      = [trace.cut[id] EXCEPT !.power_state = ticked]
                /\ players[id].power_state
                      = IF trace.picked[id] = "speed"
                        THEN [ticked EXCEPT !.speed_timer = SpeedTicks]
                        ELSE IF trace.picked[id] = "shield"
                        THEN [ticked EXCEPT !.shield_timer = ShieldTicks]
                        ELSE ticked

\* C18, its case: a tick took cycle 1's shield timer from one to zero and
\* cycle 2's speed timer from one to zero, and left the zero timers at zero
C18_Witness ==
    /\ trace.op = "tick"
    /\ trace.pre[1].power_state = [speed_timer |-> 0, shield_timer |-> 1]
    /\ trace.pre[2].power_state = [speed_timer |-> 1, shield_timer |-> 0]
    /\ players[1].power_state = PowerState
    /\ players[2].power_state = PowerState

\* the cycle whose shoot key the handled key is and that holds ammo
Shooters ==
    {id \in {1, 2} : trace.key = shoot_key(id) /\ trace.pre[id].ammo > 0}

\* the projectile a shot of cycle id creates
Shot(id) ==
    [owner_id |-> id, position |-> trace.pre[id].position,
     direction |-> trace.pre[id].direction]

\* C19: ammo is never negative; a shot, by a shoot key or by the AI, is made
\* only with ammo above zero, spends exactly one ammo and creates exactly one
\* projectile at the shooter's position with the shooter's heading; a shoot
\* key with no ammo changes nothing.
C19_ShotsSpendAmmo ==
    /\ \A id \in {1, 2} : players[id].ammo >= 0
    /\ trace.op = "key"
       => /\ \A id \in {1, 2} :
               /\ players[id].ammo
                    = trace.pre[id].ammo - (IF id \in Shooters THEN 1 ELSE 0)
               /\ (trace.key = shoot_key(id) /\ trace.pre[id].ammo = 0)
                  => players = trace.pre /\ projectiles = trace.pre_projectiles
          /\ Shooters = {} => projectiles = trace.pre_projectiles
          /\ \A id \in Shooters :
               projectiles = Append(trace.pre_projectiles, Shot(id))
    /\ trace.op = "tick"
       => /\ trace.ai_shoot
             => /\ trace.mode = "single_player"
                /\ trace.pre[2].ammo > 0
                /\ trace.turned[2].ammo = trace.pre[2].ammo - 1
                /\ trace.fired = Append(trace.pre_projectiles, Shot(2))
          /\ ~trace.ai_shoot
             => /\ trace.turned[2].ammo = trace.pre[2].ammo
                /\ trace.fired = trace.pre_projectiles
          /\ trace.turned[1].ammo = trace.pre[1].ammo
          /\ \A id \in {1, 2} :
               players[id].ammo
                  = trace.turned[id].ammo
                    + (IF trace.picked[id] = "weapon" THEN WeaponAmmo ELSE 0)

\* C19, its case: cycle 1 has fired one of its two shots with its shoot key,
\* and in the tick after it the AI fired its only shot
C19_Witness ==
    /\ trace.op = "tick"
    /\ trace.ai_shoot
    /\ trace.pre[2].ammo = 1
    /\ players[2].ammo = 0
    /\ trace.pre[1].ammo = 1
    /\ Len(trace.pre_projectiles) = 1
    /\ trace.pre_projectiles[1].owner_id = 1
    /\ Len(trace.fired) = 2

(***************************************************************************)
(* The spawner on its own: PowerUpManager.maybe_spawn called tick after    *)
(* tick on the power-up group, with pickups taking power-ups off the group *)
(* in between.  trace.gap counts the ticks since the last spawn.           *)
(***************************************************************************)
SpawnTicks == 16

\* the kinds and cells the random source is let to draw
SpawnKinds == {"speed", "eraser"}

SpawnDraws == {<<20, 40>>, <<50, 10>>}

\* the occupied sets handed to maybe_spawn: none of the drawn cells taken,
\* one of them taken, both taken
SpawnOccupied ==
    {{<<20, 30>>, <<60, 30>>},
     {<<20, 30>>, <<20, 40>>, <<60, 30>>},
     {<<20, 40>>, <<50, 10>>}}

InitSpawn ==
    /\ state = "PLAYING"
    /\ game_mode = "multiplayer"
    /\ ai_difficulty = "medium"
    /\ tournament_best_of = 3
    /\ players = [id \in {1, 2} |-> new_player(id)]
    /\ projectiles = <<>>
    /\ powerups = <<>>
    /\ ticks_since_spawn = 0
    /\ match = MatchInfo
    /\ winner = NoPlayer
    /\ round_stats = None
    /\ tick_accumulator_ms = 0
    /\ simulation_tick = 0
    /\ replay_log = <<>>
    /\ pc = "idle"
    /\ step_ms = DEFAULT_STEP_INTERVAL_MS
    /\ keys_handled = 0
    /\ limits = MenuLimits
    /\ trace = [op |-> "init", gap |-> 0]

\* _simulate_step, its call of maybe_spawn
MaybeSpawn ==
    /\ simulation_tick < SpawnTicks
    /\ \E occupied \in SpawnOccupied :
       \E sp \in maybe_spawn(powerups, ticks_since_spawn, occupied,
                             SpawnKinds, SpawnDraws) :
          /\ powerups' = sp.powerups
          /\ ticks_since_spawn' = sp.ticks_since_spawn
          /\ trace' = [op |-> "maybe_spawn",
                       pre_powerups |-> powerups,
                       pre_ticks_since_spawn |-> ticks_since_spawn,
                       occupied |-> occupied,
                       pre_gap |-> trace.gap,
                       gap |-> IF Len(sp.powerups) > Len(powerups) THEN 0
                               ELSE trace.gap + 1]
    /\ simulation_tick' = simulation_tick + 1
    /\ UNCHANGED <<state, game_mode, ai_difficulty, tournament_best_of,
                   players, projectiles, match, winner, round_stats,
                   tick_accumulator_ms, replay_log, pc, step_ms, keys_handled,
                   limits>>

\* _simulate_step, a pickup in its movement loop: the power-up hit is killed
Pickup ==
    /\ \E i \in 1 .. Len(powerups) : powerups' = remove_at(powerups, i)
    /\ trace' = [op |-> "pickup", gap |-> trace.gap]
    /\ UNCHANGED <<state, game_mode, ai_difficulty, tournament_best_of,
                   players, projectiles, ticks_since_spawn, match, winner,
                   round_stats, tick_accumulator_ms, simulation_tick,
                   replay_log, pc, step_ms, keys_handled, limits>>

NextSpawn == MaybeSpawn \/ Pickup

SpecSpawn == InitSpawn /\ [][NextSpawn]_vars

\* C20: the spawner's counter goes up by one on every tick and back to zero
\* on the tick it reaches the interval; a power-up is spawned only on such a
\* tick and only if fewer than the maximum are live; at most one power-up is
\* spawned per interval, and never more than the maximum are live.
C20_SpawnPolicy ==
    /\ Len(powerups) <= MaxPowerups
    /\ ticks_since_spawn \in 0 .. SpawnInterval - 1
    /\ trace.op = "maybe_spawn"
       => LET counter == trace.pre_ticks_since_spawn
              group == trace.pre_powerups
              due == counter + 1 = SpawnInterval
          IN  /\ ticks_since_spawn = (IF due THEN 0 ELSE counter + 1)
              /\ IF due /\ Len(group) < MaxPowerups
                 THEN /\ Len(powerups) = Len(group) + 1
                      /\ SubSeq(powerups, 1, Len(group)) = group
                      /\ powerups[Len(powerups)].kind \in PowerUpTypes
                      /\ \/ powerups[Len(powerups)].position
                               \in SampleCells \ trace.occupied
                         \/ powerups[Len(powerups)].position = CenterCell
                      /\ trace.pre_gap + 1 >= SpawnInterval
                 ELSE powerups = group

\* C20, its case: the counter reached the interval with the maximum number
\* of power-ups live, and nothing was spawned
C20_Witness ==
    /\ trace.op = "maybe_spawn"
    /\ trace.pre_ticks_since_spawn = SpawnInterval - 1
    /\ Len(trace.pre_powerups) = MaxPowerups
    /\ ticks_since_spawn = 0
    /\ powerups = trace.pre_powerups

(***************************************************************************)
(* The projectile loop of _simulate_step on its own, tick after tick, on   *)
(* up to two projectiles in flight over the trails of two cycles.          *)
(***************************************************************************)
\* cycle 1 after a straight run, after a shielded square that came back over
\* its start cell, and after that square and an eraser pickup
ProjectileFirstCycles ==
    LET square == <<LEFT, UP, RIGHT, DOWN, LEFT>>
        looped == shielded(drive(new_player(1), square), square)
    IN  {drive(new_player(1), <<RIGHT, RIGHT>>),
         looped,
         consume_trail_segment(looped, EraserCount)}

\* cycle 2 after one move
ProjectileSecondCycles == {drive(new_player(2), <<LEFT>>)}

\* the projectiles in flight: either owner, any heading, on cells two cells
\* away from trail cells, from free cells and from the border
ProjectilesInFlight ==
    {[owner_id |-> id, position |-> position, direction |-> direction] :
        id \in {1, 2},
        position \in {<<40, 30>>, <<20, 10>>, <<60, 30>>, <<70, 30>>},
        direction \in DirSet}

InitProjectile ==
    /\ state = "PLAYING"
    /\ game_mode = "multiplayer"
    /\ ai_difficulty = "medium"
    /\ tournament_best_of = 3
    /\ players \in {<<a, b>> : a \in ProjectileFirstCycles,
                              b \in ProjectileSecondCycles}
    /\ projectiles \in {<<>>} \cup {<<p>> : p \in ProjectilesInFlight}
                       \cup {<<p, q>> : p \in ProjectilesInFlight,
                                        q \in ProjectilesInFlight}
    /\ powerups = <<>>
    /\ ticks_since_spawn = 0
    /\ match = MatchInfo
    /\ winner = NoPlayer
    /\ round_stats = None
    /\ tick_accumulator_ms = 0
    /\ simulation_tick = 0
    /\ replay_log = <<>>
    /\ pc = "idle"
    /\ step_ms = DEFAULT_STEP_INTERVAL_MS
    /\ keys_handled = 0
    /\ limits = MenuLimits
    /\ trace = [op |-> "init"]

\* _simulate_step, its loop over list(self.projectiles)
ProjectileLoop ==
    /\ projectiles # <<>>
    /\ LET shot == projectile_loop(projectiles, players, <<>>)
       IN  /\ players' = shot.players
           /\ projectiles' = shot.projectiles
    /\ trace' = [op |-> "projectile_loop", pre |-> players,
                 pre_projectiles |-> projectiles]
    /\ UNCHANGED <<state, game_mode, ai_difficulty, tournament_best_of,
                   powerups, ticks_since_spawn, match, winner, round_stats,
                   tick_accumulator_ms, simulation_tick, replay_log, pc,
                   step_ms, keys_handled, limits>>

NextProjectile == ProjectileLoop

SpecProjectile == InitProjectile /\ [][NextProjectile]_vars

\* the projectiles of the tick, each two cells further along its heading
Landed ==
    [i \in DOMAIN trace.pre_projectiles |->
        LET pr == trace.pre_projectiles[i]
        IN  [pr EXCEPT !.position =
                <<pr.position[1] + 2 * GRID_SIZE * pr.direction[1],
                  pr.position[2] + 2 * GRID_SIZE * pr.direction[2]>>]]

\* how many projectiles of group are on cell and aimed at cycle victim
Hits(group, victim, cell) ==
    Cardinality({i \in DOMAIN group : /\ group[i].owner_id # victim
                                      /\ group[i].position = cell})

\* the cells of cycle victim's trail set the tick's projectiles landed on
CutCells(victim) ==
    {cell \in trace.pre[victim].trail_set : Hits(Landed, victim, cell) > 0}

\* every projectile went two cells; those off the field are gone; each cell
\* of the opposing trail set that was landed on is gone from that cycle's
\* trail and trail set together with one projectile; nothing else changed
ProjectilesAdvanceAndCut ==
    trace.op = "projectile_loop"
    => /\ Range(projectiles)
            \subseteq {pr \in Range(Landed) : in_bounds(pr.position)}
       /\ Len(projectiles)
            = Len(SelectSeq(Landed, LAMBDA pr : in_bounds(pr.position)))
              - Cardinality(CutCells(1)) - Cardinality(CutCells(2))
       /\ \A victim \in {1, 2} :
            /\ players[victim]
                 = [trace.pre[victim] EXCEPT
                      !.trail_set = @ \ CutCells(victim),
                      !.trail = SelectSeq(@, LAMBDA pos :
                                                pos \notin CutCells(victim))]
            /\ \A cell \in SampleCells :
                 Hits(projectiles, victim, cell)
                    = Hits(Landed, victim, cell)
                      - (IF cell \in CutCells(victim) THEN 1 ELSE 0)

\* no projectile is left in flight on a cell of the opposing cycle's trail
NoProjectileOnOpposingTrail ==
    \A i \in DOMAIN projectiles :
        projectiles[i].position
            \notin Range(players[IF projectiles[i].owner_id = 1
                                 THEN 2 ELSE 1].trail)

\* on cycles whose trail and trail set hold the same cells the loop leaves
\* no projectile on a cell of the opposing trail
ProjectilesOnSoundTrails ==
    (/\ trace.op = "projectile_loop"
     /\ \A id \in {1, 2} : Range(trace.pre[id].trail) = trace.pre[id].trail_set)
    => NoProjectileOnOpposingTrail

\* C21: in a tick every projectile goes two cells along its heading; one
\* that ends off the field is removed and touches no trail; one that lands
\* on a cell of the opposing cycle's trail removes that one cell from that
\* cycle's trail and trail set and is removed; any other stays in flight.  No
\* projectile cuts its owner's trail or more than one cell.
C21_ProjectileStep ==
    /\ ProjectilesAdvanceAndCut
    /\ trace.op = "projectile_loop" => NoProjectileOnOpposingTrail

(***************************************************************************)
(* Turns and the order of a tick.                                          *)
(***************************************************************************)
\* cycle id is steered by the AI in the tick of the trace
SteeredByAI(id) == trace.mode = "single_player" /\ id = 2

\* a queued turn is the heading of the next tick: the one queued before the
\* tick is the heading the tick moves with
QueuedTurnIsNextHeading(id) ==
    trace.pre[id].pending_direction # NoDirection
    => /\ trace.turned[id].direction = trace.pre[id].pending_direction
       /\ trace.next_positions[id]
            = add_direction(trace.pre[id].position,
                            trace.pre[id].pending_direction, GRID_SIZE)

\* C22 as stated, for every cycle: the last turn queue_turn accepted before
\* a tick is the heading of that tick's movement.
C22_QueuedTurnNextTick ==
    trace.op = "tick" => \A id \in {1, 2} : QueuedTurnIsNextHeading(id)

\* C22, amended: for a cycle that is not steered by the AI, the last turn
\* queue_turn accepted before a tick is the heading of that tick's movement
\* and is applied once; the AI's cycle moves with the AI's choice of the same
\* tick, whatever was queued for it by a key.  A key changes the pending
\* heading only (the last accepted one stays pending), and within a tick the
\* AI's decision and the turns come before the projectiles, the timers, the
\* collision logic and the movement.
C22_TurnNextTick ==
    /\ trace.op = "key"
       => \A id \in {1, 2} :
            LET accepted ==
                    /\ trace.key \in DOMAIN controls(id)
                    /\ controls(id)[trace.key] # trace.pre[id].direction
                    /\ ~is_opposite(controls(id)[trace.key],
                                    trace.pre[id].direction)
            IN  /\ players[id].direction = trace.pre[id].direction
                /\ players[id].position = trace.pre[id].position
                /\ players[id].pending_direction
                      = IF accepted THEN controls(id)[trace.key]
                        ELSE trace.pre[id].pending_direction
    /\ trace.op = "tick"
       => /\ \A id \in {1, 2} :
               LET want == IF SteeredByAI(id) THEN trace.ai_choice
                           ELSE trace.pre[id].pending_direction
                   heading == IF want = NoDirection
                                 \/ is_opposite(want, trace.pre[id].direction)
                              THEN trace.pre[id].direction ELSE want
               IN  /\ ~SteeredByAI(id) => QueuedTurnIsNextHeading(id)
                   /\ trace.turned[id]
                        = [trace.pre[id] EXCEPT
                             !.direction = heading,
                             !.pending_direction = NoDirection,
                             !.ammo = @ - (IF SteeredByAI(id) /\ trace.ai_shoot
                                           THEN 1 ELSE 0)]
                   /\ trace.cut[id].direction = heading
                   /\ trace.effects[id].direction = heading
                   /\ trace.next_positions[id]
                        = add_direction(trace.pre[id].position, heading,
                                        GRID_SIZE)
                   /\ players[id].direction = heading
                   /\ players[id].pending_direction = NoDirection
                   /\ players[id].position
                        = IF trace.dead[id] THEN trace.pre[id].position
                          ELSE trace.next_positions[id]
          /\ trace.mode = "single_player"
             => trace.ai_choice
                  \in choose_direction(ai_difficulty, snapshot_of(trace.pre))

\* C22, its case: cycle 1, heading right, had up queued and then down; the
\* tick moved it one cell down and left nothing pending
C22_Witness ==
    /\ trace.op = "tick"
    /\ trace.pre[1].direction = RIGHT
    /\ trace.pre[1].pending_direction = DOWN
    /\ keys_handled = 2
    /\ ~trace.dead[1]
    /\ players[1].direction = DOWN
    /\ players[1].position = add_direction(trace.pre[1].position, DOWN, GRID_SIZE)
    /\ players[1].pending_direction = NoDirection

(***************************************************************************)
(* The frame clock: _update_playing called with short, even and long       *)
(* frames on rounds in which speed timers run.                             *)
(***************************************************************************)
FrameTicks == 4

\* the elapsed milliseconds of a frame: a third of a step, a step, and two
\* steps and a bit
FrameDts == {20, 60, 130}

FrameFirstCycles ==
    {cycle(1, <<20, 20>>, RIGHT, << <<10, 20>> >>, 0, speed_timer, 0) :
        speed_timer \in {0, 2}}

FrameSecondCycles ==
    {cycle(2, c.position, LEFT, c.trail, 0, speed_timer, 0) :
        c \in {[position |-> <<60, 20>>, trail |-> << <<70, 20>> >>],
               [position |-> <<60, 30>>, trail |-> << <<70, 30>> >>]},
        speed_timer \in {0, 1}}

\* no key is pressed
FrameLimits ==
    [ticks |-> FrameTicks, keys |-> 0, draws |-> Draws,
     kinds |-> PowerUpTypes, pressed |-> {}]

InitFrame ==
    /\ state = "PLAYING"
    /\ game_mode = "tournament"
    /\ ai_difficulty = "medium"
    /\ tournament_best_of = 3
    /\ players \in {<<a, b>> : a \in FrameFirstCycles, b \in FrameSecondCycles}
    /\ projectiles = <<>>
    /\ powerups = <<>>
    /\ ticks_since_spawn = 0
    /\ match = MatchInfo
    /\ winner = NoPlayer
    /\ round_stats = None
    /\ tick_accumulator_ms = 0
    /\ simulation_tick = 0
    /\ replay_log = <<>>
    /\ pc = "idle"
    /\ step_ms = DEFAULT_STEP_INTERVAL_MS
    /\ keys_handled = 0
    /\ limits = FrameLimits
    /\ trace = [op |-> "init"]

NextFrame ==
    \/ \E dt_ms \in FrameDts : UpdatePlaying(dt_ms)
    \/ ContinueUpdate
    \/ AdvanceAfterRound

SpecFrame == InitFrame /\ [][NextFrame]_vars

\* the ticks the frame of the trace has run so far
FrameTicksRun == simulation_tick - trace.frame.tick

\* C23: a frame adds its elapsed milliseconds to the accumulator and runs one
\* tick per whole step interval held, taking one interval off per tick:
\* floor((accumulator + elapsed) / interval) ticks, none for a fast frame
\* and several for a slow one, unless a tick ends the round; after a frame
\* in which the round did not end 0 <= accumulator < interval.
C23_FrameTicks ==
    /\ (pc = "idle" /\ state = "PLAYING")
       => 0 <= tick_accumulator_ms /\ tick_accumulator_ms < step_ms
    /\ trace.op \in {"tick", "frame"}
       => /\ tick_accumulator_ms = trace.frame.ms - FrameTicksRun * step_ms
          /\ 0 <= FrameTicksRun
          /\ FrameTicksRun <= trace.frame.ms \div step_ms
          /\ trace.op = "frame" <=> FrameTicksRun = 0
          /\ (pc = "idle" /\ state = "PLAYING")
             => FrameTicksRun = trace.frame.ms \div step_ms
          /\ pc = "loop"
             => /\ state = "PLAYING"
                /\ FrameTicksRun < trace.frame.ms \div step_ms
          /\ state # "PLAYING" => pc = "idle"

\* C23, its case: a slow frame of 130 ms ran two ticks of 60 ms, kept 10 ms
\* and left the round under way
C23_Witness ==
    /\ trace.op = "tick"
    /\ trace.frame.ms = 130
    /\ step_ms = 60
    /\ FrameTicksRun = 2
    /\ tick_accumulator_ms = 10
    /\ pc = "idle"
    /\ state = "PLAYING"

\* C24: the step interval is taken anew in every frame: it is 75% of the
\* default if and only if some cycle's speed timer is positive when the
\* frame's update begins, and the default otherwise; the speed timer of one
\* cycle shortens the step of both.
C24_StepInterval ==
    trace.op \in {"tick", "frame"}
    => /\ step_ms = IF \E id \in {1, 2} : trace.frame.speed_timers[id] > 0
                    THEN (DEFAULT_STEP_INTERVAL_MS * 75) \div 100
                    ELSE DEFAULT_STEP_INTERVAL_MS
       /\ trace.op = "tick"
          => \A id \in {1, 2} :
                ~trace.dead[id]
                => players[id].position = trace.next_positions[id]

\* C24, its case: with only cycle 1's speed timer running, a frame that held
\* less than the default step ran a tick that moved both cycles
C24_Witness ==
    /\ trace.op = "tick"
    /\ trace.frame.speed_timers[1] > 0
    /\ trace.frame.speed_timers[2] = 0
    /\ trace.frame.ms < DEFAULT_STEP_INTERVAL_MS
    /\ step_ms = 45
    /\ FrameTicksRun = 1
    /\ \A id \in {1, 2} : players[id].position # trace.pre[id].position

(***************************************************************************)
(* TronAI.should_shoot on its own, on snapshots with the AI on the         *)
(* opponent's row, on its column and on neither, for every difficulty.     *)
(***************************************************************************)
MaxAmmo == 2

ShootSnapshots ==
    {[ai_position |-> p, ai_direction |-> d, opponent_position |-> o,
      occupied |-> {p, o}] :
        p \in AIPositions, d \in DirSet, o \in OpponentPositions}

InitShoot ==
    /\ state = "PLAYING"
    /\ game_mode = "single_player"
    /\ ai_difficulty \in Difficulties
    /\ tournament_best_of = 3
    /\ players = [id \in {1, 2} |-> new_player(id)]
    /\ projectiles = <<>>
    /\ powerups = <<>>
    /\ ticks_since_spawn = 0
    /\ match = MatchInfo
    /\ winner = NoPlayer
    /\ round_stats = None
    /\ tick_accumulator_ms = 0
    /\ simulation_tick = 0
    /\ replay_log = <<>>
    /\ pc = "idle"
    /\ step_ms = DEFAULT_STEP_INTERVAL_MS
    /\ keys_handled = 0
    /\ limits = MenuLimits
    /\ \E snapshot \in ShootSnapshots, ammo \in -1 .. MaxAmmo :
          trace = [op |-> "snapshot", snapshot |-> snapshot, ammo |-> ammo]

\* a call of TronAI.should_shoot
ShouldShoot ==
    /\ trace.op = "snapshot"
    /\ \E shoot \in should_shoot(ai_difficulty, trace.snapshot, trace.ammo) :
          trace' = [op |-> "should_shoot", snapshot |-> trace.snapshot,
                    ammo |-> trace.ammo, shoot |-> shoot]
    /\ UNCHANGED <<state, game_mode, ai_difficulty, tournament_best_of, players,
                   projectiles, powerups, ticks_since_spawn, match, winner,
                   round_stats, tick_accumulator_ms, simulation_tick, replay_log,
                   pc, step_ms, keys_handled, limits>>

NextShoot == ShouldShoot

SpecShoot == InitShoot /\ [][NextShoot]_vars

\* the AI of the snapshot shares its x or its y coordinate with the opponent
Aligned ==
    \/ trace.snapshot.ai_position[1] = trace.snapshot.opponent_position[1]
    \/ trace.snapshot.ai_position[2] = trace.snapshot.opponent_position[2]

\* C25: should_shoot is false whenever ammo <= 0 or the AI shares neither
\* coordinate with the opponent; with ammo > 0 and alignment hard is always
\* true; easy is false for every input; medium can be true only when aligned
\* with ammo > 0.
C25_ShouldShoot ==
    trace.op = "should_shoot"
    => /\ (trace.ammo <= 0 \/ ~Aligned) => ~trace.shoot
       /\ (ai_difficulty = "hard" /\ trace.ammo > 0 /\ Aligned) => trace.shoot
       /\ ai_difficulty = "easy" => ~trace.shoot
       /\ (ai_difficulty = "medium" /\ trace.shoot)
          => Aligned /\ trace.ammo > 0

\* C25, its case: the hard AI, on the opponent's column and not on its row,
\* holds one shot and fires
C25_Witness ==
    /\ trace.op = "should_shoot"
    /\ ai_difficulty = "hard"
    /\ trace.ammo = 1
    /\ trace.snapshot.ai_position[1] = trace.snapshot.opponent_position[1]
    /\ trace.snapshot.ai_position[2] # trace.snapshot.opponent_position[2]
    /\ trace.shoot

(***************************************************************************)
(* Configuration.                                                          *)
(***************************************************************************)
\* C26: a malformed configuration value, such as a non-positive tournament
\* best-of count, is rejected at construction: no simulation tick runs and
\* no round is under way with such a value in force.
C26_ConfigRejected ==
    (simulation_tick > 0 \/ state \in {"PLAYING", "ROUND_OVER", "GAME_OVER"})
    => tournament_best_of >= 1

(***************************************************************************)
(* Positions.                                                              *)
(***************************************************************************)
\* a position on the field and on the grid
OnGrid(position) ==
    /\ in_bounds(position)
    /\ position[1] % GRID_SIZE = 0
    /\ position[2] % GRID_SIZE = 0

\* C27: from the start positions on, every cycle's position is in bounds and
\* a multiple of the cell size in every state reached by ticks, turns,
\* pickups and resets; a cycle whose next position is out of bounds does not
\* move.
C27_PositionsOnGrid ==
    /\ \A id \in {1, 2} : OnGrid(players[id].position)
    /\ trace.op = "tick"
       => \A id \in {1, 2} :
            ~in_bounds(trace.next_positions[id])
            => /\ trace.dead[id]
               /\ players[id].position = trace.pre[id].position

\* C27, its case: cycle 1 drove up to the top edge, its next position was
\* off the field, and it stayed on its last cell
C27_Witness ==
    /\ trace.op = "tick"
    /\ trace.next_positions[1][2] < 0
    /\ trace.dead[1]
    /\ players[1].position = trace.pre[1].position
    /\ players[1].position[2] = 0
    /\ OnGrid(players[1].position)

\* the heading d of a snapshot is not the reverse of the AI's heading and the
\* cell next to the AI in it is in bounds and unoccupied
FreeAhead(snapshot, d) ==
    LET nxt == <<snapshot.ai_position[1] + d[1] * GRID_SIZE,
                 snapshot.ai_position[2] + d[2] * GRID_SIZE>>
    IN  /\ d # <<-snapshot.ai_direction[1], -snapshot.ai_direction[2]>>
        /\ nxt[1] >= 0 /\ nxt[1] < SCREEN_WIDTH
        /\ nxt[2] >= 0 /\ nxt[2] < SCREEN_HEIGHT
        /\ nxt \notin snapshot.occupied

\* C28: the easy AI returns a non-reverse heading whose next cell is in
\* bounds and unoccupied whenever one exists; otherwise it returns the
\* current heading unchanged.
C28_EasyPicksFreeCell ==
    (trace.op = "choose_direction" /\ ai_difficulty = "easy")
    => IF \E d \in DirSet : FreeAhead(trace.snapshot, d)
       THEN FreeAhead(trace.snapshot, trace.direction)
       ELSE trace.direction = trace.snapshot.ai_direction

\* C28, its case: the cell ahead is occupied, the cells above and below are
\* free, and the easy AI turns up
C28_Witness ==
    /\ trace.op = "choose_direction"
    /\ ai_difficulty = "easy"
    /\ trace.snapshot.ai_position = <<20, 20>>
    /\ trace.snapshot.ai_direction = RIGHT
    /\ trace.snapshot.occupied = {<<30, 20>>}
    /\ trace.direction = UP

(***************************************************************************)
(* The flood fill on its own: _space_score applied to the four headings of *)
(* snapshots and to depths drawn from bounded sets.                        *)
(***************************************************************************)
\* no fill at all, one level, and the depths _medium and _hard pass
SpaceDepths == {0, 1, 4, 6}

InitSpace ==
    /\ state = "PLAYING"
    /\ game_mode = "single_player"
    /\ ai_difficulty = "medium"
    /\ tournament_best_of = 3
    /\ players = [id \in {1, 2} |-> new_player(id)]
    /\ projectiles = <<>>
    /\ powerups = <<>>
    /\ ticks_since_spawn = 0
    /\ match = MatchInfo
    /\ winner = NoPlayer
    /\ round_stats = None
    /\ tick_accumulator_ms = 0
    /\ simulation_tick = 0
    /\ replay_log = <<>>
    /\ pc = "idle"
    /\ step_ms = DEFAULT_STEP_INTERVAL_MS
    /\ keys_handled = 0
    /\ limits = MenuLimits
    /\ \E snapshot \in Snapshots, depth \in SpaceDepths :
          trace = [op |-> "space_input", snapshot |-> snapshot, depth |-> depth]

\* the calls of TronAI._space_score for the four headings
SpaceScore ==
    /\ trace.op = "space_input"
    /\ trace' = [op |-> "space_score", snapshot |-> trace.snapshot,
                 depth |-> trace.depth,
                 score |-> [d \in DirSet |->
                               space_score(trace.snapshot, d, trace.depth)]]
    /\ UNCHANGED <<state, game_mode, ai_difficulty, tournament_best_of, players,
                   projectiles, powerups, ticks_since_spawn, match, winner,
                   round_stats, tick_accumulator_ms, simulation_tick, replay_log,
                   pc, step_ms, keys_handled, limits>>

NextSpace == SpaceScore

SpecSpace == InitSpace /\ [][NextSpace]_vars

\* the first cell of heading d of a snapshot is in bounds and unoccupied
OpenStart(snapshot, d) ==
    LET start == <<snapshot.ai_position[1] + d[1] * GRID_SIZE,
                   snapshot.ai_position[2] + d[2] * GRID_SIZE>>
    IN  /\ start[1] >= 0 /\ start[1] < SCREEN_WIDTH
        /\ start[2] >= 0 /\ start[2] < SCREEN_HEIGHT
        /\ start \notin snapshot.occupied

LookAhead == IF ai_difficulty = "medium" THEN 3 ELSE 4

\* the score of heading d of a snapshot as the tiers define it, in
\* hundredths: the flood fill of depth 4 (medium), the flood fill of depth 6
\* less 0.35 times the Manhattan distance from the next cell to the opponent
\* (hard)
TierScore(snapshot, d) ==
    IF ai_difficulty = "medium" THEN 100 * space_score(snapshot, d, 4)
    ELSE 100 * space_score(snapshot, d, 6)
         - 35 * (Abs(snapshot.ai_position[1] + d[1] * GRID_SIZE
                     - snapshot.opponent_position[1])
                 + Abs(snapshot.ai_position[2] + d[2] * GRID_SIZE
                       - snapshot.opponent_position[2]))

\* direction is the first heading of maximal score among the options
FirstOfMaximalScore(snapshot, options, direction) ==
    \E i \in 1 .. Len(options) :
        /\ options[i] = direction
        /\ \A j \in 1 .. Len(options) :
              TierScore(snapshot, options[j]) <= TierScore(snapshot, options[i])
        /\ \A j \in 1 .. i - 1 :
              TierScore(snapshot, options[j]) < TierScore(snapshot, options[i])

\* C29: on the medium and hard tiers, when at least one non-reverse heading
\* passes the look-ahead filter (3 cells medium, 4 cells hard),
\* choose_direction returns a heading that passes the filter and has the
\* maximal score, and among headings of equal maximal score the first in the
\* evaluation order up, down, left, right.
C29_FirstMaximalScore ==
    (trace.op = "choose_direction" /\ ai_difficulty \in {"medium", "hard"})
    => LET options == safe_directions(trace.snapshot, LookAhead)
       IN  options # <<>>
           => FirstOfMaximalScore(trace.snapshot, options, trace.direction)

\* C29, the part that holds: the returned heading passes the filter and has
\* the maximal score, and on the medium tier it is the first such heading
C29_MaximalScore ==
    (trace.op = "choose_direction" /\ ai_difficulty \in {"medium", "hard"})
    => LET options == safe_directions(trace.snapshot, LookAhead)
       IN  options # <<>>
           => /\ trace.direction \in Range(options)
              /\ \A j \in 1 .. Len(options) :
                    TierScore(trace.snapshot, options[j])
                        <= TierScore(trace.snapshot, trace.direction)
              /\ ai_difficulty = "medium"
                 => FirstOfMaximalScore(trace.snapshot, options, trace.direction)

\* C29, the case of the hard tier with two headings of equal score at
\* distances of 70 and 90 pixels: the later one is returned
C29_TieBrokenByRounding ==
    /\ trace.op = "choose_direction"
    /\ ai_difficulty = "hard"
    /\ trace.snapshot \in WalledSnapshots
    /\ safe_directions(trace.snapshot, 4) = <<UP, RIGHT>>
    /\ TierScore(trace.snapshot, UP) = TierScore(trace.snapshot, RIGHT)
    /\ trace.direction = RIGHT

\* the cells of the field next to one of the given cells and not occupied
FreeNeighbours(cells, occupied) ==
    {c \in UNION {{<<p[1] + GRID_SIZE, p[2]>>, <<p[1] - GRID_SIZE, p[2]>>,
                    <<p[1], p[2] + GRID_SIZE>>, <<p[1], p[2] - GRID_SIZE>>} :
                      p \in cells} :
        /\ c[1] >= 0 /\ c[1] < SCREEN_WIDTH
        /\ c[2] >= 0 /\ c[2] < SCREEN_HEIGHT
        /\ c \notin occupied}

\* the cells reachable from the given ones by 4-neighbour steps that avoid
\* occupied cells and stay on the field
RECURSIVE ReachableFrom(_, _)
ReachableFrom(cells, occupied) ==
    LET more == cells \cup FreeNeighbours(cells, occupied)
    IN  IF more = cells THEN cells ELSE ReachableFrom(more, occupied)

\* the number of cells reachable from the first cell of heading d
ReachableCount(snapshot, d) ==
    Cardinality(ReachableFrom({<<snapshot.ai_position[1] + d[1] * GRID_SIZE,
                                 snapshot.ai_position[2] + d[2] * GRID_SIZE>>},
                               snapshot.occupied))

\* C31: for a free in-bounds start cell the flood-fill score equals
\* min(depth * 40, number of free in-bounds cells reachable from the start
\* by 4-neighbour steps that avoid occupied cells).
C31_ScoreIsBoundedReach ==
    trace.op = "space_score"
    => \A d \in DirSet :
          OpenStart(trace.snapshot, d)
          => LET reach == ReachableCount(trace.snapshot, d)
                 budget == trace.depth * 40
             IN  trace.score[d] = IF budget <= reach THEN budget ELSE reach

\* C31, its cases: at depth 1 the budget of 40 cuts a fill of more than 40
\* reachable cells short, and a walled-in corridor of 4 cells is counted whole
C31_Witness ==
    /\ trace.op = "space_score"
    /\ trace.depth = 1
    /\ trace.snapshot \in WalledSnapshots
    /\ trace.score[UP] = 4
    /\ ReachableCount(trace.snapshot, UP) = 4

\* C31, the other case: the budget of depth 1 is exhausted on an open field
C31_BudgetExhausted ==
    /\ trace.op = "space_score"
    /\ trace.depth = 1
    /\ \E d \in DirSet : /\ OpenStart(trace.snapshot, d)
                          /\ ReachableCount(trace.snapshot, d) > 40
                          /\ trace.score[d] = 40


(***************************************************************************)
(* Rounds under way with a shield in play: the two cycles one cell apart,  *)
(* and a cycle about to pick up a shield in front of the other's trail.    *)
(***************************************************************************)
\* the caps on ticks and handled keys of these rounds
ShieldedTicks == 5

ShieldedKeys == 1

\* cycle 1 heading right at cycle 2, which heads up across its way, with the
\* shields running or not; and cycle 1 one cell before a shield power-up,
\* with cycle 2's trail along the row beyond it
ShieldedRounds ==
    {[players |-> <<cycle(1, <<20, 30>>, RIGHT, << <<10, 30>> >>, 0, 0, s1),
                    cycle(2, <<30, 30>>, UP, << <<30, 40>> >>, 0, 0, s2)>>,
      powerups |-> <<>>] : s1 \in {0, 1, 2}, s2 \in {0, 2}}
    \cup
    {[players |-> <<cycle(1, <<20, 30>>, RIGHT, << <<10, 30>> >>, 0, 0, 0),
                    cycle(2, <<40, 20>>, UP,
                          << <<70, 30>>, <<60, 30>>, <<50, 30>>, <<40, 30>> >>,
                          0, 0, 0)>>,
      powerups |-> << [kind |-> "shield", position |-> <<30, 30>>] >>]}

ShieldedLimits ==
    [ticks |-> ShieldedTicks, keys |-> ShieldedKeys, draws |-> Draws,
     kinds |-> PowerUpTypes, pressed |-> GameKeys]

InitShielded ==
    /\ game_mode \in {"tournament", "single_player"}
    /\ ai_difficulty = "medium"
    /\ tournament_best_of = 3
    /\ state = "PLAYING"
    /\ \E r \in ShieldedRounds :
          /\ players = r.players
          /\ powerups = r.powerups
    /\ projectiles = <<>>
    /\ ticks_since_spawn = 0
    /\ match = MatchInfo
    /\ winner = NoPlayer
    /\ round_stats = None
    /\ tick_accumulator_ms = 0
    /\ simulation_tick = 0
    /\ replay_log = <<>>
    /\ pc = "idle"
    /\ step_ms = DEFAULT_STEP_INTERVAL_MS
    /\ keys_handled = 0
    /\ limits = ShieldedLimits
    /\ trace = [op |-> "init"]

SpecShielded == InitShielded /\ [][NextDuel]_vars

\* C32: in every state in which the game is PLAYING the two cycles occupy
\* different cells, also when one or both shields are active.
C32_CyclesOnDifferentCells ==
    state = "PLAYING" => players[1].position # players[2].position

\* C32, its case: a tick has moved a shielded cycle onto the cell the other
\* cycle has just left, and the round goes on
C32_Witness ==
    /\ state = "PLAYING"
    /\ trace.op = "tick"
    /\ \E id \in {1, 2} :
          /\ players[id].position = trace.pre[3 - id].position
          /\ players[id].power_state.shield_timer > 0
          /\ players[3 - id].position # trace.pre[3 - id].position

(***************************************************************************)
(* Rounds under way in which no shield is ever spawned: the cycles carry   *)
(* ammo or not, and an eraser may lie ahead of cycle 1.                    *)
(***************************************************************************)
\* the caps on ticks and handled keys of these rounds
UnshieldedTicks == 4

UnshieldedKeys == 2

UnshieldedRounds ==
    {[players |-> <<cycle(1, <<20, 30>>, RIGHT, << <<0, 30>>, <<10, 30>> >>,
                          ammo, 0, 0),
                    cycle(2, <<60, row>>, LEFT, << <<70, row>> >>, ammo, 0, 0)>>,
      powerups |-> pus] :
        ammo \in {0, 1}, row \in {30, 40},
        pus \in {<<>>, << [kind |-> "eraser", position |-> <<30, 30>>] >>}}

UnshieldedLimits ==
    [ticks |-> UnshieldedTicks, keys |-> UnshieldedKeys, draws |-> Draws,
     kinds |-> PowerUpTypes \ {"shield"}, pressed |-> GameKeys]

InitUnshielded ==
    /\ game_mode \in {"tournament", "single_player"}
    /\ ai_difficulty = "medium"
    /\ tournament_best_of = 3
    /\ state = "PLAYING"
    /\ \E r \in UnshieldedRounds :
          /\ players = r.players
          /\ powerups = r.powerups
    /\ projectiles = <<>>
    /\ ticks_since_spawn = 0
    /\ match = MatchInfo
    /\ winner = NoPlayer
    /\ round_stats = None
    /\ tick_accumulator_ms = 0
    /\ simulation_tick = 0
    /\ replay_log = <<>>
    /\ pc = "idle"
    /\ step_ms = DEFAULT_STEP_INTERVAL_MS
    /\ keys_handled = 0
    /\ limits = UnshieldedLimits
    /\ trace = [op |-> "init"]

SpecUnshielded == InitUnshielded /\ [][NextDuel]_vars

\* no shield timer is positive
NeverShielded ==
    \A id \in {1, 2} : players[id].power_state.shield_timer = 0

\* C33: if no cycle's shield timer is ever positive, then in every reachable
\* state no trail contains a cell twice, the two trails share no cell, and
\* no cycle's current position lies in either trail.
C33_TrailsDisjoint ==
    /\ \A id \in {1, 2} :
          \A i, j \in 1 .. Len(players[id].trail) :
              players[id].trail[i] = players[id].trail[j] => i = j
    /\ \A i \in 1 .. Len(players[1].trail), j \in 1 .. Len(players[2].trail) :
          players[1].trail[i] # players[2].trail[j]
    /\ \A id, other \in {1, 2} :
          \A i \in 1 .. Len(players[other].trail) :
              players[id].position # players[other].trail[i]

\* C33, its case: a tick in which a projectile or an eraser took cells from
\* a trail that had two or more, and both cycles moved on
C33_Witness ==
    /\ trace.op = "tick"
    /\ state = "PLAYING"
    /\ NeverShielded
    /\ \E id \in {1, 2} :
          /\ Len(trace.pre[id].trail) >= 2
          /\ Len(players[id].trail) <= Len(trace.pre[id].trail)
    /\ \A id \in {1, 2} : players[id].position # trace.pre[id].position

(***************************************************************************)
(* One round without power-ups: the spawn interval is longer than the      *)
(* round can last.  The round starts at the start cells, or is under way   *)
(* with the trails of 20 ticks filling most of the field.                  *)
(***************************************************************************)
\* the cap on handled keys
BareKeys == 2

\* half the number of cells of the field
HalfCells ==
    ((SCREEN_WIDTH \div GRID_SIZE) * (SCREEN_HEIGHT \div GRID_SIZE)) \div 2

\* the walks of the two cycles from their start cells, 20 moves each
FirstWalk ==
    <<UP, UP, UP, LEFT, LEFT, DOWN, RIGHT, DOWN, LEFT, DOWN, RIGHT, DOWN, LEFT,
      DOWN, RIGHT, RIGHT, RIGHT, UP, UP, UP>>

SecondWalk ==
    <<UP, UP, UP, RIGHT, DOWN, DOWN, DOWN, DOWN, DOWN, LEFT, UP, LEFT, DOWN,
      LEFT, UP, UP, RIGHT, UP, LEFT, UP>>

BareRounds ==
    {[players |-> [id \in {1, 2} |-> new_player(id)], tick |-> 0],
     [players |-> <<drive(new_player(1), FirstWalk),
                    drive(new_player(2), SecondWalk)>>,
      tick |-> Len(FirstWalk)]}

BareLimits ==
    [ticks |-> HalfCells + 1, keys |-> BareKeys, draws |-> Draws,
     kinds |-> PowerUpTypes, pressed |-> GameKeys,
     interval |-> HalfCells + 2]

InitBare ==
    /\ game_mode \in {"tournament", "single_player"}
    /\ ai_difficulty = "medium"
    /\ tournament_best_of = 3
    /\ state = "PLAYING"
    /\ \E r \in BareRounds :
          /\ players = r.players
          /\ simulation_tick = r.tick
          /\ ticks_since_spawn = r.tick
    /\ powerups = <<>>
    /\ projectiles = <<>>
    /\ match = MatchInfo
    /\ winner = NoPlayer
    /\ round_stats = None
    /\ tick_accumulator_ms = 0
    /\ replay_log = <<>>
    /\ pc = "idle"
    /\ step_ms = DEFAULT_STEP_INTERVAL_MS
    /\ keys_handled = 0
    /\ limits = BareLimits
    /\ trace = [op |-> "init"]

NextBare ==
    \/ \E key \in GameKeys : HandleGameplayInput(key)
    \/ \E dt_ms \in DtSet : UpdatePlaying(dt_ms)
    \/ ContinueUpdate

SpecBare == InitBare /\ [][NextBare]_vars

\* A step of _update_playing that begins a frame: a step of the idle game
\* that is no key press and charges the tick accumulator.  It can be taken
\* exactly when UpdatePlaying can, for some dt_ms.
FrameRuns ==
    /\ pc = "idle" /\ state = "PLAYING"
    /\ LET step == IF \E id \in {1, 2} : players[id].power_state.speed_timer > 0
                   THEN (DEFAULT_STEP_INTERVAL_MS * 3) \div 4
                   ELSE DEFAULT_STEP_INTERVAL_MS
       IN  \E dt_ms \in DtSet :
              simulation_tick + ((tick_accumulator_ms + dt_ms) \div step)
                 <= limits.ticks
    /\ keys_handled' = keys_handled
    /\ tick_accumulator_ms' \in (0 .. 2 * DEFAULT_STEP_INTERVAL_MS)
                                 \ {tick_accumulator_ms}

\* A step of _update_playing that goes round its while loop once more
LoopRuns ==
    /\ pc = "loop"
    /\ pc' \in {"idle", "loop"}
    /\ simulation_tick' = simulation_tick + 1

\* the frames keep coming while the game runs (TronGame.run), and a frame
\* runs its ticks to the end
SpecBareFair ==
    /\ SpecBare
    /\ WF_<<keys_handled, tick_accumulator_ms>>(FrameRuns)
    /\ WF_<<pc, simulation_tick>>(LoopRuns)

\* no power-up was spawned: each tick of the round so far has counted up
NothingSpawned == powerups = <<>> /\ ticks_since_spawn = simulation_tick

\* every tick in which both cycles survive adds two new cells to the
\* occupied set
TwoCellsPerTick ==
    (state = "PLAYING" /\ NothingSpawned)
    => Cardinality(UNION {{players[id].position} \cup Range(players[id].trail) :
                             id \in {1, 2}})
          = 2 + 2 * simulation_tick

\* C34: if no power-up is ever spawned in a round, every tick both cycles
\* survive adds two cells to the occupied set and, the ticks running on, a
\* death is reported and the round ends after at most (number of grid
\* cells) / 2 ticks.
C34_RoundEnds ==
    /\ []TwoCellsPerTick
    /\ <>(state # "PLAYING" /\ NothingSpawned /\ simulation_tick <= HalfCells)

\* C34, its case: a round that lasted 22 ticks or more has ended
C34_Witness ==
    /\ state # "PLAYING"
    /\ trace.op = "tick"
    /\ NothingSpawned
    /\ simulation_tick >= Len(FirstWalk) + 2

(***************************************************************************)
(* The volleys: rounds without power-ups in which each cycle holds one     *)
(* shot, fired by a key or by the AI, and the round reset after a death.   *)
(***************************************************************************)
VolleyKeys == 2

VolleyRounds ==
    {[r EXCEPT !.players =
                  [id \in {1, 2} |-> [r.players[id] EXCEPT !.ammo = 1]]] :
        r \in BareRounds}

VolleyLimits ==
    [ticks |-> HalfCells + 2, keys |-> VolleyKeys, draws |-> Draws,
     kinds |-> PowerUpTypes, pressed |-> GameKeys,
     interval |-> HalfCells + 3]

InitVolley ==
    /\ game_mode \in {"tournament", "single_player"}
    /\ ai_difficulty = "medium"
    /\ tournament_best_of = 3
    /\ state = "PLAYING"
    /\ \E r \in VolleyRounds :
          /\ players = r.players
          /\ simulation_tick = r.tick
          /\ ticks_since_spawn = r.tick
    /\ powerups = <<>>
    /\ projectiles = <<>>
    /\ match = MatchInfo
    /\ winner = NoPlayer
    /\ round_stats = None
    /\ tick_accumulator_ms = 0
    /\ replay_log = <<>>
    /\ pc = "idle"
    /\ step_ms = DEFAULT_STEP_INTERVAL_MS
    /\ keys_handled = 0
    /\ limits = VolleyLimits
    /\ trace = [op |-> "init"]

SpecVolley == InitVolley /\ [][NextDuel]_vars

\* the frames keep coming while the game runs, and a frame runs its ticks
\* to the end; the key that starts the next round may never be pressed
SpecVolleyFair ==
    /\ SpecVolley
    /\ WF_<<keys_handled, tick_accumulator_ms>>(FrameRuns)
    /\ WF_<<pc, simulation_tick>>(LoopRuns)

\* the live projectiles at the end of a tick are in bounds, and each is a
\* projectile the tick began with, or one the AI fired in it, two cells on
LiveAfterTick ==
    trace.op = "tick"
    => \A i \in 1..Len(projectiles) :
          /\ in_bounds(projectiles[i].position)
          /\ \E j \in 1..Len(trace.fired) :
                projectiles[i] = projectile_step(trace.fired[j])

\* the round reset leaves no projectile
NoneAfterReset == trace.op = "reset_round" => projectiles = <<>>

\* C35: every projectile fired is removed: while the ticks run on the live
\* set empties (each live projectile moves two cells a tick along its
\* heading and is in bounds at the end of every tick), unless the round
\* ends first, and then the round reset removes it.
C35_ProjectilesRemoved ==
    /\ []LiveAfterTick
    /\ []NoneAfterReset
    /\ (projectiles # <<>>) ~> (projectiles = <<>> \/ state # "PLAYING")

\* C35, its case: a projectile left the field in a tick that left the
\* round under way, and no projectile is live
C35_Witness ==
    /\ trace.op = "tick" /\ state = "PLAYING"
    /\ projectiles = <<>>
    /\ \E j \in 1..Len(trace.fired) :
          ~in_bounds(projectile_step(trace.fired[j]).position)

\* a projectile was live when the round was reset
C35_LiveAtReset == trace.op = "reset_round" /\ trace.pre_projectiles # <<>>

(***************************************************************************)
(* The collision helper against the tick.                                  *)
(***************************************************************************)
\* the arguments of detect_round_collision as the tick holds them when it
\* decides the deaths: the next positions, the occupied set, has_shield and
\* the positions of the cycles after tick_effects
HelperOnTick ==
    detect_round_collision(trace.next_positions, trace.occupied, trace.shields,
                           [id \in {1, 2} |-> trace.effects[id].position])

\* C36: in every tick detect_round_collision, applied to the tick's next
\* positions, current positions, occupied set and shield flags, returns the
\* death flags the inline collision logic of the tick computed.
C36_HelperAgreesWithTick ==
    trace.op = "tick" => HelperOnTick = trace.dead

\* C36, its case: a tick in which a shield carried one cycle over an
\* occupied cell and the other cycle died
C36_Witness ==
    /\ trace.op = "tick"
    /\ \E id \in {1, 2} :
          /\ trace.shields[id]
          /\ trace.next_positions[id] \in trace.occupied
          /\ ~trace.dead[id]
          /\ trace.dead[3 - id]
    /\ HelperOnTick = trace.dead

(***************************************************************************)
(* Where power-ups are spawned.                                            *)
(***************************************************************************)
\* the power-up a tick spawned, the last of the group maybe_spawn left
Spawned == trace.spawned[Len(trace.spawned)]

\* a tick spawned a power-up
TickSpawned ==
    trace.op = "tick" /\ Len(trace.spawned) > Len(trace.pre_powerups)

\* whatever the random source draws, maybe_spawn has an outcome for the
\* group, the counter and the occupied set of the state
SpawnCannotFail ==
    maybe_spawn(powerups, ticks_since_spawn, occupied_cells(players),
                PowerUpTypes, SampleCells) # {}

\* C37: spawning never fails the tick, and a power-up spawned in a tick lies
\* on a grid-aligned cell of the field outside the occupied set of that
\* tick or, only when cells sampled were occupied, on the centre cell.
C37_SpawnPlacement ==
    /\ SpawnCannotFail
    /\ TickSpawned
       => \/ OnGrid(Spawned.position) /\ Spawned.position \notin trace.occupied
          \/ /\ Spawned.position = CenterCell
             /\ SampleCells \cap trace.occupied # {}

\* C37, its case: a power-up spawned on a free cell next to an occupied one
\* that the random source could have drawn as well
C37_Witness ==
    /\ TickSpawned
    /\ Spawned.position \notin trace.occupied
    /\ Spawned.position # CenterCell
    /\ \E d \in DirSet :
          add_direction(Spawned.position, d, GRID_SIZE) \in trace.occupied

\* the fallback: a power-up spawned on the centre cell although it is
\* occupied
C37_CentreOccupied ==
    /\ TickSpawned
    /\ Spawned.position = CenterCell
    /\ CenterCell \in trace.occupied

(***************************************************************************)
(* How long a shield lasts.                                                *)
(***************************************************************************)
\* The tick just run, counted from the tick in which cycle id picked up its
\* shield: the timer was set to ShieldTicks in that tick and one was taken
\* off in every tick since, this one not counted.
TicksSincePickup(id) ==
    ShieldTicks - trace.pre[id].power_state.shield_timer + 1

\* the trail rule is all that decides over cycle id in the tick just run:
\* its next position is on the field and occupied, and the cycles neither
\* meet nor swap
OnlyTrailRule(id) ==
    /\ in_bounds(trace.next_positions[id])
    /\ trace.next_positions[id] \in trace.occupied
    /\ trace.next_positions[1] # trace.next_positions[2]
    /\ ~(/\ trace.next_positions[1] = trace.effects[2].position
         /\ trace.next_positions[2] = trace.effects[1].position)

\* C38: a shield picked up in a tick sets the timer to ShieldTicks after
\* that tick's collision check; absent another pickup every later tick
\* takes one off before its collision check, so that the cycle is immune to
\* the trail rule in the ticks 1 .. ShieldTicks - 1 after the pickup and no
\* longer in tick ShieldTicks after it.
C38_ShieldLasts ==
    trace.op = "tick"
    => \A id \in {1, 2} :
          LET timer == trace.pre[id].power_state.shield_timer
          IN  /\ trace.picked[id] = "shield"
                 => players[id].power_state.shield_timer = ShieldTicks
              /\ trace.picked[id] # "shield" /\ ~trace.dead[1] /\ ~trace.dead[2]
                 => players[id].power_state.shield_timer = Ticked(timer)
              /\ trace.shields[id] <=> (timer > 0 /\ TicksSincePickup(id) < ShieldTicks)
              /\ OnlyTrailRule(id)
                 => (trace.dead[id]
                        <=> ~(timer > 0 /\ TicksSincePickup(id) < ShieldTicks))

\* C38, its case: tick ShieldTicks after the pickup, the timer not yet at
\* zero when the tick began, and the cycle dies on a trail
C38_Witness ==
    /\ trace.op = "tick"
    /\ trace.pre[1].power_state.shield_timer = 1
    /\ TicksSincePickup(1) = ShieldTicks
    /\ OnlyTrailRule(1)
    /\ trace.dead[1]
    /\ simulation_tick = 1 + ShieldTicks

\* the last tick of the immunity, ShieldTicks - 1 after the pickup
C38_LastImmuneTick ==
    /\ trace.op = "tick"
    /\ TicksSincePickup(1) = ShieldTicks - 1
    /\ OnlyTrailRule(1)
    /\ ~trace.dead[1]
    /\ simulation_tick = ShieldTicks

\* the pickup: the shield was not there for the collision check of its tick
C38_PickupTick ==
    /\ trace.op = "tick"
    /\ trace.picked[1] = "shield"
    /\ ~trace.shields[1]
    /\ simulation_tick = 1

(***************************************************************************)
(* The medium and hard tiers with no heading left.                         *)
(***************************************************************************)
\* heading d of a snapshot is not the reverse of the AI's heading and the n
\* cells next to the AI in it are in bounds and unoccupied
PassesLookAhead(snapshot, d, n) ==
    /\ d # <<-snapshot.ai_direction[1], -snapshot.ai_direction[2]>>
    /\ \A k \in 1 .. n :
          LET cell == <<snapshot.ai_position[1] + k * d[1] * GRID_SIZE,
                        snapshot.ai_position[2] + k * d[2] * GRID_SIZE>>
          IN  /\ cell[1] >= 0 /\ cell[1] < SCREEN_WIDTH
              /\ cell[2] >= 0 /\ cell[2] < SCREEN_HEIGHT
              /\ cell \notin snapshot.occupied

\* no heading of the snapshot passes the look-ahead of the tier
NoneLeft ==
    \A d \in DirSet : ~PassesLookAhead(trace.snapshot, d, LookAhead)

\* C39: on the medium and hard tiers, when no non-reverse heading passes the
\* look-ahead of 3 (medium) or 4 (hard) cells, choose_direction returns the
\* current heading, also when the next cell in it is blocked and the next
\* cell in another non-reverse heading is free.
C39_KeepsHeadingWhenStuck ==
    (/\ trace.op = "choose_direction"
     /\ ai_difficulty \in {"medium", "hard"}
     /\ NoneLeft)
    => trace.direction = trace.snapshot.ai_direction

\* C39, its case: the medium AI heads right into an occupied cell, the cell
\* above it is free, no heading has three free cells, and it keeps heading
\* right
C39_Witness ==
    /\ trace.op = "choose_direction"
    /\ ai_difficulty = "medium"
    /\ NoneLeft
    /\ trace.snapshot.ai_direction = RIGHT
    /\ ~PassesLookAhead(trace.snapshot, RIGHT, 1)
    /\ PassesLookAhead(trace.snapshot, UP, 1)
    /\ trace.direction = RIGHT

\* the same on the hard tier
C39_HardStuck ==
    /\ trace.op = "choose_direction"
    /\ ai_difficulty = "hard"
    /\ NoneLeft
    /\ ~PassesLookAhead(trace.snapshot, trace.snapshot.ai_direction, 1)
    /\ \E d \in DirSet : PassesLookAhead(trace.snapshot, d, 1)
    /\ trace.direction = trace.snapshot.ai_direction

(***************************************************************************)
(* One projectile from the cell it was fired from to the end of its        *)
(* flight: the projectile loop of _simulate_step, tick after tick.         *)
(* trace.origin keeps the cell the projectile was fired from.              *)
(***************************************************************************)
\* the cells a projectile is fired from: the cells of the row of the start
\* cells and two cells above it
FlightOrigins ==
    {<<cx * GRID_SIZE, 30>> : cx \in 0 .. (SCREEN_WIDTH \div GRID_SIZE) - 1}
    \cup {<<20, 10>>, <<30, 10>>}

InitFlight ==
    /\ state = "PLAYING"
    /\ game_mode = "multiplayer"
    /\ ai_difficulty = "medium"
    /\ tournament_best_of = 3
    /\ players \in {<<a, b>> : a \in ProjectileFirstCycles,
                              b \in ProjectileSecondCycles}
    /\ \E id \in {1, 2}, origin \in FlightOrigins, direction \in DirSet :
          /\ projectiles = << [owner_id |-> id, position |-> origin,
                               direction |-> direction] >>
          /\ trace = [op |-> "fired", origin |-> origin]
    /\ powerups = <<>>
    /\ ticks_since_spawn = 0
    /\ match = MatchInfo
    /\ winner = NoPlayer
    /\ round_stats = None
    /\ tick_accumulator_ms = 0
    /\ simulation_tick = 0
    /\ replay_log = <<>>
    /\ pc = "idle"
    /\ step_ms = DEFAULT_STEP_INTERVAL_MS
    /\ keys_handled = 0
    /\ limits = MenuLimits

\* _simulate_step, its loop over list(self.projectiles)
Flight ==
    /\ projectiles # <<>>
    /\ LET shot == projectile_loop(projectiles, players, <<>>)
       IN  /\ players' = shot.players
           /\ projectiles' = shot.projectiles
    /\ trace' = [op |-> "projectile_loop", origin |-> trace.origin,
                 pre |-> players, pre_projectiles |-> projectiles]
    /\ UNCHANGED <<state, game_mode, ai_difficulty, tournament_best_of,
                   powerups, ticks_since_spawn, match, winner, round_stats,
                   tick_accumulator_ms, simulation_tick, replay_log, pc,
                   step_ms, keys_handled, limits>>

NextFlight == Flight

SpecFlight == InitFlight /\ [][NextFlight]_vars

\* the distance between two cells, in cells
CellDistance(a, b) == (Abs(a[1] - b[1]) + Abs(a[2] - b[2])) \div GRID_SIZE

\* the cells the loop just run took off the trail of cycle id, list or set
CellsCut(id) ==
    (Range(trace.pre[id].trail) \ Range(players[id].trail))
    \cup (trace.pre[id].trail_set \ players[id].trail_set)

\* C40: a projectile tests only the cell it lands on after each two-cell
\* advance: every trail cell it removes lies at an even cell distance from
\* the cell it was fired from, and the projectile loop leaves the position,
\* the heading, the queued turn and the alive flag of both cycles as they
\* were, also when the projectile lands on a cycle's position.
C40_LandingCellOnly ==
    trace.op = "projectile_loop"
    => \A id \in {1, 2} :
          /\ \A cell \in CellsCut(id) : CellDistance(cell, trace.origin) % 2 = 0
          /\ players[id].position = trace.pre[id].position
          /\ players[id].direction = trace.pre[id].direction
          /\ players[id].pending_direction = trace.pre[id].pending_direction
          /\ players[id].alive = trace.pre[id].alive

\* C40, its case: the projectile of cycle 1 has passed over the trail cell
\* of cycle 2 one cell from where it was fired and has landed on cycle 2's
\* position, two cells from there; it flies on and the trail cell is there
C40_Witness ==
    /\ trace.op = "projectile_loop"
    /\ Len(projectiles) = 1
    /\ projectiles[1].owner_id = 1
    /\ projectiles[1].position = players[2].position
    /\ CellDistance(projectiles[1].position, trace.origin) = 2
    /\ \E cell \in players[2].trail_set :
          /\ CellDistance(cell, trace.origin) = 1
          /\ CellDistance(cell, projectiles[1].position) = 1

\* a trail cell two cells from where the projectile was fired is removed
C40_EvenCellCut ==
    /\ trace.op = "projectile_loop"
    /\ \E id \in {1, 2} : \E cell \in CellsCut(id) :
          CellDistance(cell, trace.origin) = 2

====
